---- MODULE Spec2Model ----
(***************************************************************************)
(* A model of the cores of subspace-core-rust:                             *)
(*   - the Sloth permutation and piece codec        (src/src/sloth.rs)     *)
(*   - the plot store and its request handlers      (src/src/plot.rs)      *)
(*   - the ledger engine                            (src/src/ledger.rs,    *)
(*                                                   src/src/metablocks.rs)*)
(*   - the requests of the network                  (src/src/network.rs)   *)
(* Each core has its own specifications (SpecSloth, SpecPlot, Spec,        *)
(* SpecNetwork, ...); the variables of the other cores stay at their       *)
(* initial value.                                                          *)
(***************************************************************************)
EXTENDS Integers, Sequences, FiniteSets, TLC

VARIABLES
    sloth_pc,       \* position of the Sloth experiment
    sloth_piece,    \* the piece buffer that encode / decode mutate (digits)
    sloth_input,    \* the piece as it was handed to encode
    sloth_iv,       \* expanded IV (digits)
    sloth_layers,   \* layer count
    sloth_data,     \* the Integer that sqrt_permutation / inverse_sqrt mutate
    sloth_data_in,  \* the Integer as it was handed to sqrt_permutation
    plot_file,      \* plot.bin: the encodings stored, one per PIECE_SIZE bytes
    plot_position,  \* the position of the one file handle the broker owns
    map_db,         \* plot-map: index.to_le_bytes() -> position.to_le_bytes()
    tags_db,        \* plot-tags: tag[0..8] -> index.to_le_bytes()
    plot_reply,     \* what the last served request sent to its result_sender
    plot_written,   \* history: index -> encoding of its last completed write
    plot_requests,  \* history: number of write-queue requests served
    plot_broker,    \* the broker task of the plot, its channels and its clients
    network,        \* the requests of Network (src/src/network.rs) and their peers
    ledger          \* the Ledger (src/src/ledger.rs), one field per field of the struct

slothVars == <<sloth_pc, sloth_piece, sloth_input, sloth_iv, sloth_layers,
               sloth_data, sloth_data_in>>
plotStore == <<plot_file, plot_position, map_db, tags_db, plot_reply,
               plot_written, plot_requests>>
plotVars == <<plotStore, plot_broker>>
ledgerVars == <<ledger>>
networkVars == <<network>>
vars == <<slothVars, plotVars, ledgerVars, networkVars>>

SeqToSet(seq) == {seq[k] : k \in 1 .. Len(seq)}

(***************************************************************************)
(*                               Sloth                                     *)
(***************************************************************************)

\* Bits of one byte of the model (a byte of the program has 8).
ByteBits == 2
\* Bytes of one Sloth block (PRIME_SIZE_BYTES of the program is 32).
BlockSizeBytes == 2
\* Blocks of one piece (PIECE_SIZE / block_size_bytes of the program is 128).
NumBlocks == 2
\* Largest layer count tried.
MaxLayers == 2

ByteBase == 2 ^ ByteBits
Bytes == 0 .. (ByteBase - 1)
block_size_bits == BlockSizeBytes * ByteBits
PieceLen == NumBlocks * BlockSizeBytes

RECURSIVE BitXor(_, _)
BitXor(a, b) ==
    IF a = 0 THEN b
    ELSE IF b = 0 THEN a
    ELSE (((a % 2) + (b % 2)) % 2) + 2 * BitXor(a \div 2, b \div 2)

is_probably_prime(n) == n > 1 /\ \A d \in 2 .. (n - 1) : n % d # 0

RECURSIVE prev_prime_loop(_)
prev_prime_loop(n) == IF is_probably_prime(n) THEN n ELSE prev_prime_loop(n - 2)

prev_prime(prime) ==
    prev_prime_loop(IF prime % 2 = 0 THEN prime - 1 ELSE prime - 2)

RECURSIVE init_prime_loop(_)
init_prime_loop(prime) ==
    IF prime % 4 # 3 THEN init_prime_loop(prev_prime(prime)) ELSE prime

\* Sloth::init : the prime and the exponent
SlothPrime == init_prime_loop(prev_prime(2 ^ block_size_bits - 1))
SlothExponent == (SlothPrime + 1) \div 4

RECURSIVE pow_mod(_, _, _)
pow_mod(base, exp, modulus) ==
    IF exp = 0 THEN 1 % modulus
    ELSE (base * pow_mod(base, exp - 1, modulus)) % modulus

\* Integer::jacobi for an odd prime modulus
jacobi(x, p) ==
    IF x % p = 0 THEN 0
    ELSE IF \E y \in 1 .. (p - 1) : (y * y) % p = x % p THEN 1
    ELSE -1

\* The assertion at the top of sqrt_permutation.
sqrt_permutation_assert(data) == data < SlothPrime

sqrt_permutation(data) ==
    IF jacobi(data, SlothPrime) = 1
    THEN LET y == pow_mod(data, SlothExponent, SlothPrime)
         IN  IF y % 2 = 1 THEN SlothPrime - y ELSE y
    ELSE LET y == pow_mod(SlothPrime - data, SlothExponent, SlothPrime)
         IN  IF y % 2 = 0 THEN SlothPrime - y ELSE y

inverse_sqrt(data) ==
    LET is_odd == data % 2 = 1
        sq == (data * data) % SlothPrime
    IN  IF is_odd THEN SlothPrime - sq ELSE sq

\* Integer::from_digits(block, Order::Lsf)
RECURSIVE from_digits(_)
from_digits(digits) ==
    IF digits = <<>> THEN 0
    ELSE Head(digits) + ByteBase * from_digits(Tail(digits))

\* Integer::to_digits::<u8>(Order::Lsf): no leading zero byte, empty for 0
RECURSIVE to_digits(_)
to_digits(n) ==
    IF n = 0 THEN <<>> ELSE <<n % ByteBase>> \o to_digits(n \div ByteBase)

\* piece.chunks_exact(block_size_bytes).map(from_digits)
piece_to_integers(piece) ==
    [i \in 1 .. NumBlocks |->
        from_digits(SubSeq(piece, (i - 1) * BlockSizeBytes + 1, i * BlockSizeBytes))]

\* One chunk of write_integers_to_array: the integer's bytes, then zeroes.
integer_to_chunk(n) ==
    LET bytes == to_digits(n)
    IN  [k \in 1 .. BlockSizeBytes |-> IF k <= Len(bytes) THEN bytes[k] ELSE 0]

RECURSIVE concat_chunks(_, _)
concat_chunks(integer_piece, i) ==
    IF i > Len(integer_piece) THEN <<>>
    ELSE integer_to_chunk(integer_piece[i]) \o concat_chunks(integer_piece, i + 1)

write_integers_to_array(integer_piece) == concat_chunks(integer_piece, 1)

\* The two nested loops of encode, flattened: step k handles block
\* (k mod NumBlocks) of layer (k div NumBlocks).  The result is the record
\* [ok, piece]; ok is FALSE when the assertion of sqrt_permutation failed.
RECURSIVE encode_loop(_, _, _, _)
encode_loop(integer_piece, feedback, k, layers) ==
    IF k = layers * NumBlocks THEN [ok |-> TRUE, piece |-> integer_piece]
    ELSE LET i == (k % NumBlocks) + 1
             x == BitXor(integer_piece[i], feedback)
         IN  IF ~sqrt_permutation_assert(x)
             THEN [ok |-> FALSE, piece |-> integer_piece]
             ELSE LET y == sqrt_permutation(x)
                  IN  encode_loop([integer_piece EXCEPT ![i] = y], y, k + 1, layers)

encode(piece, expanded_iv, layers) ==
    LET r == encode_loop(piece_to_integers(piece), from_digits(expanded_iv), 0, layers)
    IN  [ok |-> r.ok, piece |-> write_integers_to_array(r.piece)]

\* The loops of decode: step k handles block NumBlocks - (k mod NumBlocks)
\* of pass (k div NumBlocks).
RECURSIVE decode_loop(_, _, _)
decode_loop(integer_piece, k, layers) ==
    IF k = layers * NumBlocks THEN integer_piece
    ELSE LET layer == k \div NumBlocks
             i == NumBlocks - (k % NumBlocks)
             inv == inverse_sqrt(integer_piece[i])
             next ==
                 IF i = 1
                 THEN IF layer # layers - 1
                      THEN BitXor(inv, integer_piece[NumBlocks])
                      ELSE inv
                 ELSE BitXor(inv, integer_piece[i - 1])
         IN  decode_loop([integer_piece EXCEPT ![i] = next], k + 1, layers)

decode(piece, expanded_iv, layers) ==
    LET p == decode_loop(piece_to_integers(piece), 0, layers)
        q == [p EXCEPT ![1] = BitXor(p[1], from_digits(expanded_iv))]
    IN  write_integers_to_array(q)

AllPieces == [1 .. PieceLen -> Bytes]
AllIVs == [1 .. BlockSizeBytes -> Bytes]

SlothIdle ==
    /\ sloth_pc = "idle"
    /\ sloth_piece = <<>> /\ sloth_input = <<>> /\ sloth_iv = <<>>
    /\ sloth_layers = 0 /\ sloth_data = 0 /\ sloth_data_in = 0

SlothInit ==
    \/ /\ sloth_pc = "piece"
       /\ sloth_piece \in AllPieces
       /\ sloth_input = sloth_piece
       /\ sloth_iv \in AllIVs
       /\ sloth_layers \in 1 .. MaxLayers
       /\ sloth_data = 0 /\ sloth_data_in = 0
    \/ /\ sloth_pc = "data"
       /\ sloth_piece = <<>> /\ sloth_input = <<>> /\ sloth_iv = <<>>
       /\ sloth_layers = 0
       /\ sloth_data \in 0 .. (2 ^ block_size_bits - 1)
       /\ sloth_data_in = sloth_data

\* Sloth::encode on the piece
SlothEncode ==
    /\ sloth_pc = "piece"
    /\ LET r == encode(sloth_piece, sloth_iv, sloth_layers)
       IN  /\ sloth_pc' = IF r.ok THEN "encoded" ELSE "panicked"
           /\ sloth_piece' = IF r.ok THEN r.piece ELSE sloth_piece
    /\ UNCHANGED <<sloth_input, sloth_iv, sloth_layers, sloth_data, sloth_data_in>>
    /\ UNCHANGED <<plotVars, ledgerVars, networkVars>>

\* Sloth::decode on the encoding
SlothDecode ==
    /\ sloth_pc = "encoded"
    /\ sloth_pc' = "decoded"
    /\ sloth_piece' = decode(sloth_piece, sloth_iv, sloth_layers)
    /\ UNCHANGED <<sloth_input, sloth_iv, sloth_layers, sloth_data, sloth_data_in>>
    /\ UNCHANGED <<plotVars, ledgerVars, networkVars>>

\* Sloth::sqrt_permutation on an Integer
SlothSqrtPermutation ==
    /\ sloth_pc = "data"
    /\ IF sqrt_permutation_assert(sloth_data)
       THEN /\ sloth_pc' = "permuted"
            /\ sloth_data' = sqrt_permutation(sloth_data)
       ELSE /\ sloth_pc' = "panicked"
            /\ sloth_data' = sloth_data
    /\ UNCHANGED <<sloth_piece, sloth_input, sloth_iv, sloth_layers, sloth_data_in>>
    /\ UNCHANGED <<plotVars, ledgerVars, networkVars>>

\* Sloth::inverse_sqrt on the permuted Integer
SlothInverseSqrt ==
    /\ sloth_pc = "permuted"
    /\ sloth_pc' = "inverted"
    /\ sloth_data' = inverse_sqrt(sloth_data)
    /\ UNCHANGED <<sloth_piece, sloth_input, sloth_iv, sloth_layers, sloth_data_in>>
    /\ UNCHANGED <<plotVars, ledgerVars, networkVars>>

SlothNext == SlothEncode \/ SlothDecode \/ SlothSqrtPermutation \/ SlothInverseSqrt


(***************************************************************************)
(*                             Plot store                                  *)
(***************************************************************************)

PIECE_SIZE == 4096

\* Requests of the write queue (writes and removes) served in one run.
MaxWrites == 3

\* The model's u64 of a tag has TagLen bytes of one bit each (the program's
\* has 8 bytes of 8 bits), so that wrap-around is within reach.
TagByteBase == 1 + 1
TagLen == 1 + 2
TagSpace == TagByteBase ^ TagLen
TagValues == 0 .. (TagSpace - 1)
\* The piece indexes, the encodings and the nonces that clients pass.
PlotIndexes == {0, 1}
Encodings == {"e1", "e2"}
Nonces == {0, 1}
NoEncoding == "none"
NotFound == "NotFound"

\* u64::to_be_bytes / from_be_bytes / to_le_bytes / from_le_bytes on a
\* number of `len` bytes of base `base`
RECURSIVE to_le_bytes_of(_, _, _)
to_le_bytes_of(n, len, base) ==
    IF len = 0 THEN <<>>
    ELSE <<n % base>> \o to_le_bytes_of(n \div base, len - 1, base)

RECURSIVE from_le_bytes_of(_, _)
from_le_bytes_of(bytes, base) ==
    IF bytes = <<>> THEN 0
    ELSE Head(bytes) + base * from_le_bytes_of(Tail(bytes), base)

Reverse(seq) == [k \in 1 .. Len(seq) |-> seq[Len(seq) + 1 - k]]

tag_to_be_bytes(n) == Reverse(to_le_bytes_of(n, TagLen, TagByteBase))
tag_from_be_bytes(bytes) == from_le_bytes_of(Reverse(bytes), TagByteBase)
tag_to_le_bytes(n) == to_le_bytes_of(n, TagLen, TagByteBase)
tag_from_le_bytes(bytes) == from_le_bytes_of(bytes, TagByteBase)

\* usize / u64 ::to_le_bytes and from_le_bytes of indexes and positions
usize_to_le_bytes(n) == to_le_bytes_of(n, 8, 256)
usize_from_le_bytes(bytes) == from_le_bytes_of(bytes, 256)

\* The byte-wise order in which RocksDB keeps and iterates its keys.
RECURSIVE BytesLess(_, _)
BytesLess(a, b) ==
    IF a = <<>> THEN b # <<>>
    ELSE IF b = <<>> THEN FALSE
    ELSE IF Head(a) # Head(b) THEN Head(a) < Head(b)
    ELSE BytesLess(Tail(a), Tail(b))

RECURSIVE SortedKeysOf(_)
SortedKeysOf(keys) ==
    IF keys = {} THEN <<>>
    ELSE LET least == CHOOSE k \in keys : \A o \in keys \ {k} : BytesLess(k, o)
         IN  <<least>> \o SortedKeysOf(keys \ {least})

\* tags_db.raw_iterator(): the keys in order; a position past the last key
\* is the invalid iterator (iter.key() is None).
raw_iterator(db) == SortedKeysOf(DOMAIN db)

\* iter.seek(key): the first position whose key is >= key
iter_seek(keys, key) ==
    LET hits == {k \in 1 .. Len(keys) : ~BytesLess(keys[k], key)}
    IN  IF hits = {} THEN Len(keys) + 1
        ELSE CHOOSE k \in hits : \A o \in hits : k <= o

\* crypto::create_hmac(encoding, nonce.to_le_bytes())[0..8]: the tag bytes.
\* A fixed mixing of its two arguments onto the tag space.
EncodingNumber(encoding) == IF encoding = "e1" THEN 0 ELSE 1
create_hmac(encoding, nonce) ==
    tag_to_be_bytes(((EncodingNumber(encoding) * Cardinality(Nonces) + nonce) * 5 + 1)
                    % TagSpace)

\* while let Some(tag) = iter.key() { if from_be_bytes(tag) <= upper { push; next } else break }
RECURSIVE scan_while_at_most(_, _, _, _)
scan_while_at_most(db, keys, at, upper) ==
    IF at > Len(keys) THEN <<>>
    ELSE IF tag_from_be_bytes(keys[at]) <= upper
    THEN <<<<keys[at], usize_from_le_bytes(db[keys[at]])>>>>
         \o scan_while_at_most(db, keys, at + 1, upper)
    ELSE <<>>

\* while let Some(tag) = iter.key() { push; next }
RECURSIVE scan_to_end(_, _, _)
scan_to_end(db, keys, at) ==
    IF at > Len(keys) THEN <<>>
    ELSE <<<<keys[at], usize_from_le_bytes(db[keys[at]])>>>>
         \o scan_to_end(db, keys, at + 1)

\* find_by_range without the two-scan branch for an interval that wraps.
find_by_range_single_scan(db, target, range) ==
    LET keys == raw_iterator(db)
        t == tag_from_be_bytes(target)
        half == range \div 2
        lower == (t - half + TagSpace) % TagSpace
        upper == (t + half) % TagSpace
    IN  scan_while_at_most(db, keys, iter_seek(keys, tag_to_be_bytes(lower)), upper)

\* find_by_range that returns the whole of tags_db
find_by_range_whole_plot(db, target, range) == scan_to_end(db, raw_iterator(db), 1)

\* The body of the FindByRange handler: the solutions it sends.
find_by_range(db, target, range) ==
    LET keys == raw_iterator(db)
        t == tag_from_be_bytes(target)
        half == range \div 2
        is_lower_overflowed == t < half
        lower == (t - half + TagSpace) % TagSpace
        is_upper_overflowed == t + half >= TagSpace
        upper == (t + half) % TagSpace
    IN  IF is_lower_overflowed \/ is_upper_overflowed
        THEN scan_while_at_most(db, keys, 1, upper)
             \o scan_to_end(db, keys, iter_seek(keys, tag_to_be_bytes(lower)))
        ELSE scan_while_at_most(db, keys, iter_seek(keys, tag_to_be_bytes(lower)), upper)

\* The slot of plot.bin that the PIECE_SIZE bytes at `position` are.
SlotAt(position) == (position \div PIECE_SIZE) + 1

\* ---- the broker task (src/src/plot.rs, spawned by open_or_create) and
\* ---- the clients that send to it

\* Clients of the plot, each sending one request in a run.
MaxClients == 3
Clients == 1 .. MaxClients
\* mpsc::channel::<()>(1): the buffer of the signal channel
SignalBuffer == 1

\* the channels and the task as open_or_create leaves them
BrokerNew ==
    [read_requests |-> <<>>,               \* read_requests channel: clients queued
     write_requests |-> <<>>,              \* write_requests channel: clients queued
     any_requests |-> 0,                   \* signals in the any_requests channel
     did_nothing |-> TRUE,
     pc |-> "loop",                        \* where the task is: loop, reads, write
     clients |-> [c \in Clients |-> "idle"], \* idle, sent (before try_send),
                                           \* waiting (at result_receiver.await)
     answered |-> {},                      \* clients whose result_sender was used
     ignored |-> {},                       \* history: clients whose try_send failed
     reads_at_start |-> {},                \* history: reads queued when the
                                           \* iteration began
     drained |-> FALSE,                    \* history: the read queue was found
                                           \* empty in this iteration
     writes_served |-> 0,                  \* history: writes served in this iteration
     write_after_drain |-> TRUE]           \* history: each write was served after
                                           \* the reads of its iteration

PlotIdle ==
    /\ plot_broker = BrokerNew
    /\ plot_file = <<>> /\ plot_position = 0
    /\ map_db = <<>> /\ tags_db = <<>>
    /\ plot_reply = [op |-> "none"]
    /\ plot_written = [i \in PlotIndexes |-> NoEncoding]
    /\ plot_requests = 0

\* Plot::read served by the ReadEncoding handler
ReadEncoding(index) ==
    LET key == usize_to_le_bytes(index)
    IN  IF key \in DOMAIN map_db
        THEN LET position == usize_from_le_bytes(map_db[key])
             IN  /\ plot_reply' = [op |-> "read", index |-> index,
                                   result |-> plot_file[SlotAt(position)]]
                 /\ plot_position' = position + PIECE_SIZE
        ELSE /\ plot_reply' = [op |-> "read", index |-> index, result |-> NotFound]
             /\ plot_position' = plot_position

PlotRead ==
    \E index \in PlotIndexes :
        /\ plot_reply.op = "none"
        /\ ReadEncoding(index)
        /\ UNCHANGED <<plot_file, map_db, tags_db, plot_written, plot_requests>>
        /\ UNCHANGED <<slothVars, ledgerVars, plot_broker, networkVars>>

\* Plot::find_by_range served by the FindByRange handler
PlotFindByRange ==
    \E t \in TagValues, range \in TagValues :
        /\ plot_reply.op = "none"
        /\ plot_reply' = [op |-> "find_by_range", target |-> tag_to_be_bytes(t),
                          range |-> range,
                          result |-> find_by_range(tags_db, tag_to_be_bytes(t), range)]
        /\ UNCHANGED <<plot_file, plot_position, map_db, tags_db, plot_written,
                       plot_requests>>
        /\ UNCHANGED <<slothVars, ledgerVars, plot_broker, networkVars>>

\* The body of the FindByTag handler: the (tag, index) it sends, or the
\* panic of iter.key().unwrap() when the iterator is past the last key.
UnwrapOnNone == "called Option::unwrap() on a None value"
find_by_tag(db, tag) ==
    LET keys == raw_iterator(db)
        at == iter_seek(keys, tag_to_le_bytes(tag))
    IN  IF at > Len(keys) THEN [panic |-> UnwrapOnNone, sent |-> <<>>]
        ELSE [panic |-> "none",
              sent |-> <<tag_from_le_bytes(keys[at]), usize_from_le_bytes(db[keys[at]])>>]

\* Plot::find_by_tag served by the FindByTag handler
PlotFindByTag ==
    \E tag \in TagValues :
        /\ plot_reply.op = "none"
        /\ plot_reply' = [op |-> "find_by_tag", tag |-> tag,
                          result |-> find_by_tag(tags_db, tag)]
        /\ UNCHANGED <<plot_file, plot_position, map_db, tags_db, plot_written,
                       plot_requests>>
        /\ UNCHANGED <<slothVars, ledgerVars, plot_broker, networkVars>>

\* a delete that leaves the entry in place
map_delete_keeping_entry(db, key) == db

\* map_db.delete(index.to_le_bytes())
map_delete(db, key) == [k \in (DOMAIN db) \ {key} |-> db[k]]
\* db.put(key, value)
db_put(db, key, value) == [k \in (DOMAIN db) \cup {key} |-> IF k = key THEN value ELSE db[k]]

\* The position at which the WriteEncoding handler writes the encoding:
\* plot_file.seek(SeekFrom::Current(0)).
write_position == plot_position

\* Plot::write served by the WriteEncoding handler
WriteEncoding(index, nonce, encoding) ==
    LET position == write_position
        slot == SlotAt(position)
        tag == create_hmac(encoding, nonce)
    IN  /\ plot_file' = IF slot > Len(plot_file)
                        THEN Append(plot_file, encoding)
                        ELSE [plot_file EXCEPT ![slot] = encoding]
        /\ plot_position' = position + PIECE_SIZE
        /\ tags_db' = db_put(tags_db, tag, usize_to_le_bytes(index))
        /\ map_db' = db_put(map_delete(map_db, usize_to_le_bytes(index)),
                            usize_to_le_bytes(index), usize_to_le_bytes(position))
        /\ plot_reply' = [op |-> "write", index |-> index, result |-> "Ok"]

PlotWrite ==
    \E index \in PlotIndexes, nonce \in Nonces, encoding \in Encodings :
        /\ plot_reply.op = "none"
        /\ plot_requests < MaxWrites
        /\ WriteEncoding(index, nonce, encoding)
        /\ plot_written' = [plot_written EXCEPT ![index] = encoding]
        /\ plot_requests' = plot_requests + 1
        /\ UNCHANGED <<slothVars, ledgerVars, plot_broker, networkVars>>

\* Plot::remove served by the RemoveEncoding handler
PlotRemove ==
    \E index \in PlotIndexes :
        /\ plot_reply.op = "none"
        /\ plot_requests < MaxWrites
        /\ map_db' = map_delete(map_db, usize_to_le_bytes(index))
        /\ plot_reply' = [op |-> "remove", index |-> index, result |-> "Ok"]
        /\ plot_written' = [plot_written EXCEPT ![index] = NoEncoding]
        /\ plot_requests' = plot_requests + 1
        /\ UNCHANGED <<plot_file, plot_position, tags_db>>
        /\ UNCHANGED <<slothVars, ledgerVars, plot_broker, networkVars>>

\* The caller takes the result off its oneshot channel (result_receiver.await).
PlotReturn ==
    /\ plot_reply.op # "none"
    /\ plot_reply' = [op |-> "none"]
    /\ UNCHANGED <<plot_file, plot_position, map_db, tags_db, plot_written,
                   plot_requests>>
    /\ UNCHANGED <<slothVars, ledgerVars, plot_broker, networkVars>>

PlotNext ==
    \/ PlotRead \/ PlotFindByRange \/ PlotFindByTag \/ PlotWrite \/ PlotRemove
    \/ PlotReturn


(***************************************************************************)
(* Network requests (src/src/network.rs)                                   *)
(***************************************************************************)

\* RequestsContainer.next_id is a u32 that wraps; two bits stand for its 32
IdBits == 2
MaxRequests == 5

\* RequestsContainer::default and no request made: `handlers` maps an id to
\* the request whose oneshot sender it holds
NetworkNew ==
    [next_id |-> 0,
     handlers |-> [id \in {} |-> 0],
     requests |-> <<>>,        \* the calls of Network::request, in order
     in_flight |-> {},         \* Message::Response on its way to the node
     delivered |-> {}]         \* history: the responses handed to a sender
NetworkIdle == network = NetworkNew

(***************************************************************************)
(*                               Ledger                                    *)
(***************************************************************************)

CONFIRMATION_DEPTH == 6
TIMESLOTS_PER_EPOCH == 4
CHALLENGE_LOOKBACK_EPOCHS == 3
BLOCK_REWARD == 1
MAX_EARLY_TIMESLOTS == 3
MAX_LATE_TIMESLOTS == 3

\* Gossip and sync blocks that peers send in one run of the model.
MaxRemoteBlocks == 1 + 1

\* self.keys.public of this node, and the key of a remote farmer
OwnKey == "gateway"
PeerKey == "peer"
\* [0u8; 32], the parent id of the first genesis block
ZeroContentId == <<"zero">>
NoPanic == "none"

\* The ids are SHA-256 digests; a digest is modelled by the tuple of what is
\* hashed, tagged with its kind, so that distinct inputs give distinct ids.
proof_get_id(proof) ==
    <<"p", proof.epoch, proof.timeslot, proof.public_key, proof.piece_index>>
content_get_id(content) ==
    <<"c", content.parent_id, content.proof_id, content.tx_ids>>
block_get_id(block) ==
    <<"b", proof_get_id(block.proof), content_get_id(block.content)>>
tx_get_id(tx) ==
    IF tx.kind = "Coinbase" THEN <<"cb", tx.proof_id>>
    ELSE <<"tx", tx.from_address, tx.to_address, tx.amount, tx.nonce>>

\* CoinbaseTx::new(reward, public_key, proof_id), as a Transaction::Coinbase
CoinbaseTx(reward, to_address, proof_id) ==
    [kind |-> "Coinbase", from_address |-> "-", to_address |-> to_address,
     amount |-> reward, nonce |-> 0, proof_id |-> proof_id]
\* a Transaction::Credit
CreditTx(from_address, to_address, amount, nonce) ==
    [kind |-> "Credit", from_address |-> from_address, to_address |-> to_address,
     amount |-> amount, nonce |-> nonce, proof_id |-> <<>>]

\* The credit transactions peers gossip.
Transactions ==
    {CreditTx(OwnKey, PeerKey, 1, 1), CreditTx(PeerKey, OwnKey, 1, 1)}
\* Two payments of the gateway that its balance covers one at a time, and a
\* payment of the peer.
CreditTransactions ==
    {CreditTx(OwnKey, PeerKey, 7, 1), CreditTx(OwnKey, PeerKey, 7, 1 + 1),
     CreditTx(PeerKey, OwnKey, 7, 1)}
TransactionIds == {tx_get_id(tx) : tx \in Transactions \cup CreditTransactions}

\* Proof { epoch, timeslot, public_key, piece_index, .. }
Proof(epoch, timeslot, public_key, piece_index) ==
    [epoch |-> epoch, timeslot |-> timeslot, public_key |-> public_key,
     piece_index |-> piece_index]

\* Block { proof, coinbase_tx, content, data }; the timestamp and the
\* signatures are left out, `data` is "valid" when Block::is_valid accepts it.
Block(proof, parent_id, tx_ids, data) ==
    [proof |-> proof,
     coinbase_tx |-> CoinbaseTx(BLOCK_REWARD, proof.public_key, proof_get_id(proof)),
     content |-> [parent_id |-> parent_id, proof_id |-> proof_get_id(proof),
                  tx_ids |-> tx_ids],
     data |-> data]

\* Block::prune: the encoding is dropped from the copy that is stored
prune(block) == [block EXCEPT !.data = "pruned"]

\* the cached ids of a MetaBlock
metablock_proof_id(metablock) == proof_get_id(metablock.block.proof)
metablock_content_id(metablock) == content_get_id(metablock.block.content)
metablock_block_id(metablock) == block_get_id(metablock.block)

EmptyMap == [x \in {} |-> x]
map_remove(map, key) == [k \in DOMAIN map \ {key} |-> map[k]]
map_push(map, key, value) ==
    IF key \in DOMAIN map THEN [map EXCEPT ![key] = Append(@, value)]
    ELSE (key :> <<value>>) @@ map
SetMin(S) == CHOOSE x \in S : \A y \in S : x <= y
SetMax(S) == CHOOSE x \in S : \A y \in S : x >= y

\* Ledger::new
LedgerNew ==
    [balances |-> EmptyMap,
     blocks |-> EmptyMap,                  \* metablocks.blocks
     content_to_proof_map |-> EmptyMap,    \* metablocks.content_to_proof_map
     recent_proof_ids |-> {},
     proof_ids_by_timeslot |-> EmptyMap,
     cached_blocks_by_parent_content_id |-> EmptyMap,
     early_blocks_by_timeslot |-> EmptyMap,
     blocks_on_longest_chain |-> {},
     heads |-> <<>>,
     txs |-> EmptyMap,
     tx_mempool |-> {},
     epochs |-> <<>>,                      \* epoch_tracker: epoch e is epochs[e + 1]
     timer_is_running |-> FALSE,
     current_timeslot |-> 0,
     panicked |-> NoPanic,                 \* the panic that ended the process
     last_op |-> "new",                    \* the handler that ran last
     solver_timeslot |-> 0,                \* last timeslot the solver answered
     remote_blocks |-> 0,                  \* history: blocks received from peers
     confirmation_depths |-> {},           \* history: generations between a staged
                                           \* block and the block it confirmed
     heads_sorted |-> TRUE,                \* history: heads[0] was highest after
                                           \* every stage_block
     siblings_pruned |-> TRUE,             \* history: every confirm_block left no
                                           \* sibling of the block it confirmed
     restaged_unchanged |-> TRUE,          \* history: every stage_block of a block
                                           \* staged before left balances, heads
                                           \* and epochs alone
     cached_children_released |-> TRUE,    \* history: every stage_cached_children
                                           \* staged the valid children and
                                           \* dropped their cache entry
     sync_timeslot |-> 0,                  \* run: timeslot of the sync loop
     sync_block_height |-> 0,              \* run: block_height of the sync loop
     credits_guarded |-> TRUE,             \* history: every Credit arm changed
                                           \* balances only as its checks allow
     staging_calls |-> <<>>,               \* history: the advance_epoch and
                                           \* stage_block calls of the gossip run
     gossip_log |-> {},                    \* history: the validations of remote
                                           \* blocks, see Observed
     confirm_returned |-> "none",          \* what the confirm_block that runs
                                           \* returns to stage_block
     failed_confirms |-> {},               \* history: the confirm_block calls on
                                           \* a block with a tx-id not in txs
     early_check_underflowed |-> FALSE,    \* history: current_timeslot -
                                           \* MAX_EARLY_TIMESLOTS was evaluated
                                           \* below MAX_EARLY_TIMESLOTS
     cache_walk |-> [pc |-> "idle"],       \* a walk of stage_cached_children over
                                           \* a cache of named blocks, see WalkNew
     confirmed_pruned |-> {},              \* history: the proof-ids prune_children
                                           \* removed while they were in
                                           \* blocks_on_longest_chain
     tx_applied |-> [id \in TransactionIds |-> 0],  \* history: balance changes
     tx_removed |-> [id \in TransactionIds |-> 0]]  \* history: mempool removals

LedgerIdle == ledger = LedgerNew

panic(L, message) == [L EXCEPT !.panicked = message]

\* ---- epoch tracker (src/src/timer/epoch.rs; the tracker around it is
\* ---- taken from the specification)

\* Epoch::new
\* crypto::digest_sha_256: a digest stands for the data it was made of
digest_sha_256(data) == <<"sha256", data>>
\* u64::to_le_bytes
u64_to_le_bytes(n) == <<"le", n>>

\* Epoch::new(index, solution_range)
EpochNew(index) ==
    [is_closed |-> FALSE, timeslots |-> EmptyMap, challenges |-> <<>>,
     randomness |-> digest_sha_256(u64_to_le_bytes(index))]

\* Epoch::add_block_to_timeslot
add_block_to_timeslot(epoch, timeslot, block_id) ==
    IF epoch.is_closed THEN epoch
    ELSE [epoch EXCEPT
            !.timeslots = map_push(@, timeslot % TIMESLOTS_PER_EPOCH, block_id)]

\* close: utils::xor_bytes folded over the block ids of all timeslots into
\* the randomness.  XOR is commutative and cancels pairs, so the result is
\* given by the randomness and the ids recorded an odd number of times.
xor_fold(randomness, timeslots) ==
    LET entries == UNION {{<<k, i>> : i \in DOMAIN timeslots[k]} : k \in DOMAIN timeslots}
        odd == {timeslots[e[1]][e[2]] : e \in
                    {e \in entries :
                        Cardinality({f \in entries :
                            timeslots[f[1]][f[2]] = timeslots[e[1]][e[2]]}) % 2 = 1}}
    IN  IF odd = {} THEN randomness ELSE <<"xor", randomness, odd>>

\* close: SHA-256(randomness || timeslot_index LE)
slot_challenge(randomness, timeslot_index) ==
    digest_sha_256(<<"concat", randomness, u64_to_le_bytes(timeslot_index)>>)

\* a close that seeds the challenges with the folded ids, not with their hash
close_with_folded_seed(epoch) ==
    LET xor_result == xor_fold(epoch.randomness, epoch.timeslots)
    IN  [epoch EXCEPT
            !.randomness = digest_sha_256(xor_result),
            !.challenges = @ \o [i \in 1 .. TIMESLOTS_PER_EPOCH |->
                                    slot_challenge(xor_result, i - 1)],
            !.is_closed = TRUE]

\* Epoch::close: the randomness and the challenges are derived from the
\* blocks recorded so far, and the epoch is closed
close(epoch) ==
    LET xor_result == xor_fold(epoch.randomness, epoch.timeslots)
        randomness == digest_sha_256(xor_result)
    IN  [epoch EXCEPT
            !.randomness = randomness,
            !.challenges = @ \o [i \in 1 .. TIMESLOTS_PER_EPOCH |->
                                    slot_challenge(randomness, i - 1)],
            !.is_closed = TRUE]

\* EpochTracker::advance_epoch: creates the next epoch and closes the epoch
\* CHALLENGE_LOOKBACK_EPOCHS before it, if it exists and is open
advance_epoch(L) ==
    LET new_index == Len(L.epochs)
        created == Append(L.epochs, EpochNew(new_index))
        lookback == new_index - CHALLENGE_LOOKBACK_EPOCHS
    IN  [L EXCEPT !.epochs =
            IF lookback >= 0 /\ ~created[lookback + 1].is_closed
            THEN [created EXCEPT ![lookback + 1] = close(@)]
            ELSE created]

\* EpochTracker::add_block_to_epoch(epoch_index, height, proof_id, ..)
add_block_to_epoch(L, epoch_index, height, proof_id) ==
    IF epoch_index + 1 \in DOMAIN L.epochs
    THEN [L EXCEPT !.epochs[epoch_index + 1] =
                        add_block_to_timeslot(@, height, proof_id)]
    ELSE L

\* ---- fork heads

\* update_heads that puts the head of a new branch in front of the others
update_heads_new_branch_first(L, parent_id, content_id, block_height) ==
    LET found == {i \in DOMAIN L.heads : L.heads[i].content_id = parent_id}
        index == SetMin(found)
    IN  IF found = {}
        THEN [L EXCEPT !.heads =
                <<[block_height |-> block_height, content_id |-> content_id]>> \o @]
        ELSE [L EXCEPT !.heads[index] =
                [block_height |-> @.block_height + 1, content_id |-> content_id]]

\* Ledger::update_heads
update_heads(L, parent_id, content_id, block_height) ==
    LET found == {i \in DOMAIN L.heads : L.heads[i].content_id = parent_id}
        index == SetMin(found)
        updated == [L.heads EXCEPT ![index] =
                        [block_height |-> @.block_height + 1,
                         content_id |-> content_id]]
    IN  IF found = {}
        THEN [L EXCEPT !.heads =
                Append(@, [block_height |-> block_height, content_id |-> content_id])]
        ELSE IF index # 1 /\ updated[index].block_height > updated[1].block_height
        THEN [L EXCEPT !.heads =
                [updated EXCEPT ![1] = updated[index], ![index] = updated[1]]]
        ELSE [L EXCEPT !.heads = updated]

\* Vec::remove
seq_remove(seq, index) ==
    [i \in 1..(Len(seq) - 1) |-> IF i < index THEN seq[i] ELSE seq[i + 1]]

\* prune_branch that leaves the head of the pruned branch in heads
prune_branch_keeping_head(L, content_id) ==
    LET found == {i \in DOMAIN L.heads : L.heads[i].content_id = content_id}
    IN  IF 1 \in found THEN panic(L, "Cannot prune head of the longest chain!")
        ELSE IF found = {} THEN panic(L, "Branch must exist")
        ELSE L

\* Ledger::prune_branch
prune_branch(L, content_id) ==
    LET found == {i \in DOMAIN L.heads : L.heads[i].content_id = content_id}
    IN  IF 1 \in found THEN panic(L, "Cannot prune head of the longest chain!")
        ELSE IF found = {} THEN panic(L, "Branch must exist")
        ELSE [L EXCEPT !.heads = seq_remove(@, SetMax(found))]

\* ---- metablocks (src/src/metablocks.rs)

\* MetaBlocks::save
save(L, block) ==
    LET proof_id == proof_get_id(block.proof)
        content_id == content_get_id(block.content)
        linked == block.proof.timeslot # 0
        parent_id == block.content.parent_id
        parent_proof_id == L.content_to_proof_map[parent_id]
        height == IF linked THEN L.blocks[parent_proof_id].height + 1 ELSE 0
        blocks == IF linked
                  THEN [L.blocks EXCEPT ![parent_proof_id].children = Append(@, proof_id)]
                  ELSE L.blocks
        metablock == [block |-> block, children |-> <<>>, height |-> height]
    IN  IF linked /\ parent_id \notin DOMAIN L.content_to_proof_map
        THEN panic(L, "Should have content for a valid block")
        ELSE IF linked /\ parent_proof_id \notin DOMAIN L.blocks
        THEN panic(L, "unwrap on None: parent metablock")
        ELSE IF /\ proof_id \in DOMAIN blocks
                /\ metablock_block_id(blocks[proof_id]) # block_get_id(block)
        THEN panic(L, "Two contents are being used for the same proof!")
        ELSE [L EXCEPT !.blocks = (proof_id :> metablock) @@ blocks,
                       !.content_to_proof_map = (content_id :> proof_id) @@ @]

\* prune_children that removes the given blocks and leaves their descendants
RECURSIVE prune_children_one_level(_, _)
prune_children_one_level(L, proof_ids) ==
    IF L.panicked # NoPanic \/ proof_ids = <<>> THEN L
    ELSE LET child_proof_id == Head(proof_ids)
             metablock == L.blocks[child_proof_id]
             removed == [L EXCEPT
                 !.blocks = map_remove(@, child_proof_id),
                 !.content_to_proof_map = map_remove(@, metablock_content_id(metablock)),
                 !.confirmed_pruned =
                    @ \cup ({child_proof_id} \cap L.blocks_on_longest_chain)]
         IN  IF child_proof_id \notin DOMAIN L.blocks
             THEN panic(L, "Child will be in metablocks")
             ELSE prune_children_one_level(
                    IF metablock.children = <<>>
                    THEN prune_branch(removed, metablock_content_id(metablock))
                    ELSE removed,
                    Tail(proof_ids))

\* prune_children that leaves the pruned blocks in content_to_proof_map
RECURSIVE prune_children_from_blocks_only(_, _)
prune_children_from_blocks_only(L, proof_ids) ==
    IF L.panicked # NoPanic \/ proof_ids = <<>> THEN L
    ELSE LET child_proof_id == Head(proof_ids)
             metablock == L.blocks[child_proof_id]
             removed == [L EXCEPT
                 !.blocks = map_remove(@, child_proof_id),
                 !.confirmed_pruned =
                    @ \cup ({child_proof_id} \cap L.blocks_on_longest_chain)]
         IN  IF child_proof_id \notin DOMAIN L.blocks
             THEN panic(L, "Child will be in metablocks")
             ELSE prune_children_from_blocks_only(
                    IF metablock.children = <<>>
                    THEN prune_branch(removed, metablock_content_id(metablock))
                    ELSE prune_children_from_blocks_only(removed, metablock.children),
                    Tail(proof_ids))

\* Ledger::prune_children
RECURSIVE prune_children(_, _)
prune_children(L, proof_ids) ==
    IF L.panicked # NoPanic \/ proof_ids = <<>> THEN L
    ELSE LET child_proof_id == Head(proof_ids)
             metablock == L.blocks[child_proof_id]
             removed == [L EXCEPT
                 !.blocks = map_remove(@, child_proof_id),
                 !.content_to_proof_map = map_remove(@, metablock_content_id(metablock)),
                 !.confirmed_pruned =
                    @ \cup ({child_proof_id} \cap L.blocks_on_longest_chain)]
         IN  IF child_proof_id \notin DOMAIN L.blocks
             THEN panic(L, "Child will be in metablocks")
             ELSE prune_children(
                    IF metablock.children = <<>>
                    THEN prune_branch(removed, metablock_content_id(metablock))
                    ELSE prune_children(removed, metablock.children),
                    Tail(proof_ids))

\* ---- confirmation (src/src/ledger.rs)

\* the Coinbase arm with an insert that overwrites the account
apply_coinbase_overwriting(L, tx) ==
    [L EXCEPT !.balances =
        (tx.to_address :> [nonce |-> 0, balance |-> BLOCK_REWARD]) @@ @]

\* confirm_block: Transaction::Coinbase arm
apply_coinbase(L, tx) ==
    [L EXCEPT !.balances =
        IF tx.to_address \in DOMAIN @
        THEN [@ EXCEPT ![tx.to_address].balance = @ + BLOCK_REWARD]
        ELSE (tx.to_address :> [nonce |-> 0, balance |-> BLOCK_REWARD]) @@ @]

\* confirm_block: debit the sender, credit the receiver
transfer(L, tx_id, tx) ==
    LET debited == [L.balances EXCEPT ![tx.from_address].balance = @ - tx.amount]
    IN  [L EXCEPT
            !.balances =
                IF tx.to_address \in DOMAIN debited
                THEN [debited EXCEPT ![tx.to_address].balance = @ + tx.amount]
                ELSE (tx.to_address :> [nonce |-> 0, balance |-> tx.amount]) @@ debited,
            !.tx_applied[tx_id] = @ + 1]

\* the Credit arm that debits and credits without looking at the account
apply_credit_unchecked(L, tx_id) ==
    LET tx == L.txs[tx_id]
        removed == [L EXCEPT !.tx_mempool = @ \ {tx_id}, !.tx_removed[tx_id] = @ + 1]
    IN  IF tx.from_address \notin DOMAIN L.balances
        THEN panic(L, "Existence of account state has already been validated")
        ELSE transfer(removed, tx_id, tx)

\* confirm_block: Transaction::Credit arm, from the removal from the mempool
apply_credit_in_mempool(L, tx_id) ==
    LET tx == L.txs[tx_id]
        removed == [L EXCEPT !.tx_mempool = @ \ {tx_id}, !.tx_removed[tx_id] = @ + 1]
    IN  IF tx.from_address \notin DOMAIN L.balances
        THEN panic(L, "Existence of account state has already been validated")
        ELSE IF L.balances[tx.from_address].balance < tx.amount THEN removed
        ELSE IF L.balances[tx.from_address].nonce >= tx.nonce THEN removed
        ELSE transfer(removed, tx_id, tx)

\* the Credit arm without the lookup in the mempool
apply_credit_without_mempool_check(L, tx_id) == apply_credit_in_mempool(L, tx_id)

\* what the Credit arm is to leave: the amount moved from the sender to the
\* receiver when the sender had the balance and an older nonce, and the
\* balances as they were otherwise
CreditGuarded(before, after, tx) ==
    LET sender == before.balances[tx.from_address]
        Balance(L, address) ==
            IF address \in DOMAIN L.balances THEN L.balances[address].balance ELSE 0
        moved == IF sender.balance >= tx.amount /\ sender.nonce < tx.nonce
                 THEN tx.amount ELSE 0
    IN  \A address \in DOMAIN after.balances :
            Balance(after, address) = Balance(before, address)
                + (IF address = tx.to_address THEN moved ELSE 0)
                - (IF address = tx.from_address THEN moved ELSE 0)

\* history: whether the Credit arm that took `before` to `after` kept to its
\* checks
credit_recorded(before, after, tx) ==
    IF after.panicked # NoPanic THEN after
    ELSE [after EXCEPT !.credits_guarded = @ /\ CreditGuarded(before, after, tx)]

\* confirm_block: Transaction::Credit arm
apply_credit(L, tx_id) ==
    IF tx_id \notin L.tx_mempool THEN L
    ELSE credit_recorded(L, apply_credit_in_mempool(L, tx_id), L.txs[tx_id])

\* confirm_block: apply all tx, in the order of the block's tx_ids
RECURSIVE apply_txs(_, _)
apply_txs(L, tx_ids) ==
    IF L.panicked # NoPanic \/ tx_ids = <<>> THEN L
    ELSE LET tx_id == Head(tx_ids)
         IN  apply_txs(IF L.txs[tx_id].kind = "Coinbase"
                       THEN apply_coinbase(L, L.txs[tx_id])
                       ELSE apply_credit(L, tx_id),
                       Tail(tx_ids))

\* confirm_block: drain the parent's children that are not this block and
\* prune them
prune_siblings(L, metablock) ==
    LET proof_id == metablock_proof_id(metablock)
        parent_id == metablock.block.content.parent_id
        parent_proof_id == L.content_to_proof_map[parent_id]
        Sibling(child) == child # proof_id
        Kept(child) == child = proof_id
    IN  IF parent_id \notin DOMAIN L.content_to_proof_map
        THEN panic(L, "Parent will be in metablocks")
        ELSE IF parent_proof_id \notin DOMAIN L.blocks
        THEN panic(L, "Parent will be in metablocks")
        ELSE prune_children(
                [L EXCEPT !.blocks[parent_proof_id].children = SelectSeq(@, Kept)],
                SelectSeq(L.blocks[parent_proof_id].children, Sibling))

\* the given blocks and all blocks below them in metablocks
RECURSIVE descendants(_, _)
descendants(blocks, proof_ids) ==
    IF proof_ids = {} THEN {}
    ELSE proof_ids \cup descendants(blocks,
            UNION {SeqToSet(blocks[proof_id].children) :
                        proof_id \in proof_ids \cap DOMAIN blocks} \ proof_ids)

\* what confirm_block(metablock) is to leave of the siblings of the block:
\* before is the ledger at the drain of the siblings, after the ledger left
SiblingsPruned(before, after, metablock) ==
    LET proof_id == metablock_proof_id(metablock)
        parent_proof_id == before.content_to_proof_map[metablock.block.content.parent_id]
        siblings == SeqToSet(before.blocks[parent_proof_id].children) \ {proof_id}
        pruned == descendants(before.blocks, siblings) \cap DOMAIN before.blocks
        content_ids == {metablock_content_id(before.blocks[p]) : p \in pruned}
    IN  /\ pruned \cap DOMAIN after.blocks = {}
        /\ content_ids \cap DOMAIN after.content_to_proof_map = {}
        /\ \A i \in DOMAIN after.heads : after.heads[i].content_id \notin content_ids
        /\ SeqToSet(after.blocks[parent_proof_id].children) = {proof_id}

\* an insert that forgets the blocks confirmed before
insert_forgetting_longest_chain(L, proof_id) ==
    [L EXCEPT !.blocks_on_longest_chain = {proof_id}]

\* confirm_block: blocks_on_longest_chain.insert(proof_id)
insert_on_longest_chain(L, proof_id) ==
    [L EXCEPT !.blocks_on_longest_chain = @ \cup {proof_id}]

\* confirm_block: the tx-ids of the block that are not in txs
unknown_txs(L, metablock) ==
    {tx_id \in SeqToSet(metablock.block.content.tx_ids) : tx_id \notin DOMAIN L.txs}

\* confirm_block: return false on an unknown tx, after the block was put on
\* the longest chain
unknown_tx_return_on_chain(L, metablock) ==
    [insert_on_longest_chain(L, metablock_proof_id(metablock))
        EXCEPT !.confirm_returned = "false"]

\* confirm_block: return false on an unknown tx
unknown_tx_return(L, metablock) == [L EXCEPT !.confirm_returned = "false"]

\* confirm_block after the siblings of the block have been pruned
confirm_block_pruned(metablock, applied, pruned) ==
    IF pruned.panicked # NoPanic THEN pruned
    ELSE [pruned EXCEPT !.siblings_pruned =
                            @ /\ SiblingsPruned(applied, pruned, metablock),
                        !.confirm_returned = "true"]

\* confirm_block after the loop over the tx_ids of the block
confirm_block_applied(metablock, applied) ==
    IF applied.panicked # NoPanic THEN applied
    ELSE IF metablock.height > 0
    THEN confirm_block_pruned(metablock, applied, prune_siblings(applied, metablock))
    ELSE [applied EXCEPT !.confirm_returned = "true"]

\* Ledger::confirm_block
confirm_block(L, metablock) ==
    IF unknown_txs(L, metablock) # {} THEN unknown_tx_return(L, metablock)
    ELSE confirm_block_applied(metablock,
            apply_txs(insert_on_longest_chain(L, metablock_proof_id(metablock)),
                      metablock.block.content.tx_ids))

\* what confirm_block may not change when it fails
ConfirmChangedNothing(before, after) ==
    /\ after.balances = before.balances
    /\ after.blocks_on_longest_chain = before.blocks_on_longest_chain
    /\ after.tx_mempool = before.tx_mempool
    /\ after.blocks = before.blocks
    /\ after.content_to_proof_map = before.content_to_proof_map
    /\ after.heads = before.heads

\* history: a confirm_block on a block with an unknown tx, and what it left;
\* stage_block drops the value returned
confirm_observed(before, metablock, after) ==
    [after EXCEPT
        !.confirm_returned = "none",
        !.failed_confirms = @ \cup
            IF unknown_txs(before, metablock) = {} THEN {}
            ELSE {[proof_id |-> metablock_proof_id(metablock),
                   returned |-> after.confirm_returned,
                   unchanged |-> ConfirmChangedNothing(before, after)]}]

\* stage_block: self.confirm_block(&parent_block).await
confirm_parent(L, parent_block) ==
    confirm_observed(L, parent_block, confirm_block(L, parent_block))

\* ---- staging

\* stage_block: the loop that confirms an ancestor of the staged block
RECURSIVE confirm_k_deep(_, _, _)
confirm_k_deep(L, metablock, confirmation_depth) ==
    LET parent_id == metablock.block.content.parent_id
        parent_proof_id == L.content_to_proof_map[parent_id]
        parent_block == L.blocks[parent_proof_id]
    IN  IF parent_id \notin DOMAIN L.content_to_proof_map THEN L
        ELSE IF parent_proof_id \notin DOMAIN L.blocks
        THEN panic(L, "Must have block if in content_to_proof_map")
        ELSE IF confirmation_depth + 1 = CONFIRMATION_DEPTH
        THEN confirm_parent(
                [L EXCEPT !.confirmation_depths =
                            @ \cup {metablock.height - parent_block.height}],
                parent_block)
        ELSE confirm_k_deep(L, metablock, confirmation_depth + 1)

\* stage_block: a block already in metablocks is taken out of the cached gossip
remove_from_cached_gossip(L, block) ==
    LET proof_id == proof_get_id(block.proof)
        parent_id == block.content.parent_id
        cache == L.cached_blocks_by_parent_content_id
        found == {i \in DOMAIN cache[parent_id] :
                    proof_get_id(cache[parent_id][i].proof) = proof_id}
        blocks == IF found = {} THEN cache[parent_id]
                  ELSE seq_remove(cache[parent_id], SetMin(found))
    IN  IF proof_id \notin DOMAIN L.blocks \/ parent_id \notin DOMAIN cache THEN L
        ELSE [L EXCEPT !.cached_blocks_by_parent_content_id =
                IF blocks = <<>> THEN map_remove(@, parent_id)
                ELSE [@ EXCEPT ![parent_id] = blocks]]

HeadsSorted(heads) ==
    \A i \in DOMAIN heads : heads[1].block_height >= heads[i].block_height

\* the block is in metablocks, under its proof id and with its block id
AlreadyStaged(L, block) ==
    /\ proof_get_id(block.proof) \in DOMAIN L.blocks
    /\ metablock_block_id(L.blocks[proof_get_id(block.proof)]) = block_get_id(prune(block))

\* a stage_block that is a no-op on balances, heads and epochs
StagingChangedNothing(before, after) ==
    /\ after.balances = before.balances
    /\ after.heads = before.heads
    /\ after.epochs = before.epochs

\* stage_block after add_block_to_epoch, with its history
stage_block_recorded(L, block, recorded) ==
    [recorded EXCEPT
        !.heads_sorted = @ /\ HeadsSorted(recorded.heads),
        !.restaged_unchanged = @ /\ (AlreadyStaged(L, block) =>
                                        StagingChangedNothing(L, recorded))]

\* stage_block after the loop that confirms an ancestor: the block is
\* added to its epoch
stage_block_confirmed(L, block, metablock, confirmed) ==
    IF confirmed.panicked # NoPanic THEN confirmed
    ELSE stage_block_recorded(L, block,
            add_block_to_epoch(confirmed, block.proof.epoch, metablock.height,
                               proof_get_id(block.proof)))

\* stage_block after MetaBlocks::save: the proof id is listed under its
\* timeslot, the heads are updated and an ancestor is confirmed
stage_block_saved(L, block, saved) ==
    IF saved.panicked # NoPanic THEN saved
    ELSE stage_block_confirmed(L, block, saved.blocks[proof_get_id(block.proof)],
            confirm_k_deep(
                update_heads(
                    [saved EXCEPT !.proof_ids_by_timeslot =
                        map_push(@, block.proof.timeslot, proof_get_id(block.proof))],
                    block.content.parent_id,
                    metablock_content_id(saved.blocks[proof_get_id(block.proof)]),
                    saved.blocks[proof_get_id(block.proof)].height),
                saved.blocks[proof_get_id(block.proof)], 0))

\* Ledger::stage_block
stage_block(L, block) ==
    IF L.panicked # NoPanic THEN L
    ELSE stage_block_saved(L, block,
            save(remove_from_cached_gossip(
                    [L EXCEPT !.txs =
                        (tx_get_id(block.coinbase_tx) :> block.coinbase_tx) @@ @],
                    block),
                 prune(block)))

\* ---- validation

\* what a validation returns: the ledger it leaves and its verdict
Result(L, valid) == [ledger |-> L, valid |-> valid]

\* Ledger::cache_remote_block
cache_remote_block(L, block) ==
    [L EXCEPT !.cached_blocks_by_parent_content_id =
                map_push(@, block.content.parent_id, block)]

\* Block::is_valid: the verdict on the proof, signatures, encoding and merkle proof
block_is_valid(block) == block.data = "valid"

\* Ledger::validate_block
validate_block(L, block) ==
    LET index == block.proof.epoch - CHALLENGE_LOOKBACK_EPOCHS
    IN  IF index < 0 \/ index + 1 \notin DOMAIN L.epochs
        THEN Result(panic(L, "get_lookback_epoch: no such epoch"), FALSE)
        ELSE IF ~L.epochs[index + 1].is_closed
        THEN Result(panic(L, "Epoch being used for randomness is still open!"), FALSE)
        ELSE Result(L, block_is_valid(block))

parent_is_known(L, block) ==
    block.content.parent_id \in DOMAIN L.content_to_proof_map
parent_metablock(L, block) ==
    L.blocks[L.content_to_proof_map[block.content.parent_id]]
\* "ensure the parent is from an earlier timeslot"
parent_is_in_the_future(L, block) ==
    parent_metablock(L, block).block.proof.timeslot >= block.proof.timeslot
\* "is the parent not too far back? (no deep forks)"
would_cause_deep_fork(L, block) ==
    parent_metablock(L, block).height + CONFIRMATION_DEPTH >= L.heads[1].block_height

\* the checks on the parent that the sync, gossip and arrival validations share
parent_checks(L, block) ==
    IF L.content_to_proof_map[block.content.parent_id] \notin DOMAIN L.blocks
    THEN Result(panic(L, "unwrap on None: parent metablock"), FALSE)
    ELSE IF parent_is_in_the_future(L, block) THEN Result(L, FALSE)
    ELSE IF L.heads = <<>>
    THEN Result(panic(L, "index out of bounds: heads[0]"), FALSE)
    ELSE IF would_cause_deep_fork(L, block) THEN Result(L, FALSE)
    ELSE Result(L, TRUE)

\* Ledger::is_valid_proposer_block_from_sync
is_valid_proposer_block_from_sync(L, block) ==
    LET proof_id == proof_get_id(block.proof)
        seen == [L EXCEPT !.recent_proof_ids = @ \cup {proof_id}]
    IN  IF proof_id \in L.recent_proof_ids THEN Result(L, FALSE)
        ELSE IF ~parent_is_known(seen, block) THEN Result(seen, FALSE)
        ELSE IF ~parent_checks(seen, block).valid THEN parent_checks(seen, block)
        ELSE validate_block(seen, block)

\* is_valid_proposer_block_from_gossip: "has the proof's timeslot arrived?",
\* taken when current_timeslot < block.proof.timeslot.  The u64 subtraction
\* current_timeslot - MAX_EARLY_TIMESLOTS underflows below MAX_EARLY_TIMESLOTS:
\* a build with overflow checks panics, one without wraps to a value above
\* every timeslot and ignores the block.
early_block(L, block, overflow_checks) ==
    IF L.current_timeslot < MAX_EARLY_TIMESLOTS
    THEN IF overflow_checks
         THEN Result(panic([L EXCEPT !.early_check_underflowed = TRUE],
                           "attempt to subtract with overflow"), FALSE)
         ELSE Result([L EXCEPT !.early_check_underflowed = TRUE], FALSE)
    ELSE IF L.current_timeslot - MAX_EARLY_TIMESLOTS > block.proof.timeslot
    THEN Result(L, FALSE)
    ELSE Result([L EXCEPT !.early_blocks_by_timeslot =
                    map_push(@, block.proof.timeslot, block)], FALSE)

\* Ledger::is_valid_proposer_block_from_gossip
is_valid_proposer_block_from_gossip(L, block, overflow_checks) ==
    LET proof_id == proof_get_id(block.proof)
        seen == [L EXCEPT !.recent_proof_ids = @ \cup {proof_id}]
    IN  IF proof_id \in L.recent_proof_ids THEN Result(L, FALSE)
        ELSE IF ~L.timer_is_running
        THEN Result(cache_remote_block(seen, block), FALSE)
        ELSE IF L.current_timeslot < block.proof.timeslot
        THEN early_block(seen, block, overflow_checks)
        ELSE IF block.proof.timeslot > L.current_timeslot + MAX_LATE_TIMESLOTS
        THEN Result(seen, FALSE)
        ELSE IF ~parent_is_known(seen, block)
        THEN Result(cache_remote_block(seen, block), FALSE)
        ELSE IF ~parent_checks(seen, block).valid THEN parent_checks(seen, block)
        ELSE validate_block(seen, block)

\* Ledger::is_valid_proposer_block_from_cache
is_valid_proposer_block_from_cache(L, block) ==
    IF ~parent_is_known(L, block)
    THEN Result(panic(L, "unwrap on None: parent proof id"), FALSE)
    ELSE IF L.content_to_proof_map[block.content.parent_id] \notin DOMAIN L.blocks
    THEN Result(panic(L, "unwrap on None: parent metablock"), FALSE)
    ELSE IF parent_is_in_the_future(L, block) THEN Result(L, FALSE)
    ELSE validate_block(L, block)

\* Ledger::is_valid_proposer_block_that_has_arrived
is_valid_proposer_block_that_has_arrived(L, block) ==
    LET validated == validate_block(L, block)
    IN  IF ~validated.valid THEN validated
        ELSE IF ~parent_is_known(L, block)
        THEN Result(cache_remote_block(L, block), FALSE)
        ELSE parent_checks(L, block)

\* ---- handlers of the ledger

cached_children(L, parent_id) ==
    IF parent_id \in DOMAIN L.cached_blocks_by_parent_content_id
    THEN L.cached_blocks_by_parent_content_id[parent_id]
    ELSE <<>>

\* stage_cached_children: `for block in blocks.drain(..)`; returns the ledger
\* and the additional_blocks collected
RECURSIVE stage_cached_blocks(_, _, _)
stage_cached_blocks(L, blocks, additional_blocks) ==
    IF L.panicked # NoPanic \/ blocks = <<>>
    THEN [ledger |-> L, additional_blocks |-> additional_blocks]
    ELSE LET block == Head(blocks)
             checked == is_valid_proposer_block_from_cache(L, block)
             staged == stage_block(checked.ledger, block)
         IN  IF checked.valid
             THEN stage_cached_blocks(staged, Tail(blocks),
                    additional_blocks
                        \o cached_children(staged, content_get_id(block.content)))
             ELSE stage_cached_blocks(checked.ledger, Tail(blocks), additional_blocks)

\* stage_cached_children: `while blocks.len() > 0`
RECURSIVE stage_cached_rounds(_, _)
stage_cached_rounds(L, blocks) ==
    IF L.panicked # NoPanic \/ blocks = <<>> THEN L
    ELSE LET round == stage_cached_blocks(L, blocks, <<>>)
         IN  stage_cached_rounds(round.ledger, round.additional_blocks)

\* the cached children of the parent that pass the validation from cache
valid_cached_children(L, parent_id) ==
    LET Valid(block) == is_valid_proposer_block_from_cache(L, block).valid
    IN  SelectSeq(cached_children(L, parent_id), Valid)

\* what stage_cached_children(parent_id) is to leave: the valid children
\* staged, the node running, and no cache entry for the parent
CachedChildrenReleased(before, after, parent_id) ==
    /\ after.panicked = NoPanic
    /\ \A block \in SeqToSet(valid_cached_children(before, parent_id)) :
            proof_get_id(block.proof) \in DOMAIN after.blocks
    /\ parent_id \notin DOMAIN after.cached_blocks_by_parent_content_id

\* Ledger::stage_cached_children
stage_cached_children(L, parent_id) ==
    LET staged == stage_cached_rounds(L, cached_children(L, parent_id))
    IN  IF L.panicked # NoPanic \/ valid_cached_children(L, parent_id) = <<>> THEN staged
        ELSE [staged EXCEPT !.cached_children_released =
                                @ /\ CachedChildrenReleased(L, staged, parent_id)]

\* next_timeslot: validate and stage the early blocks of the timeslot
RECURSIVE stage_early_blocks(_, _)
stage_early_blocks(L, blocks) ==
    IF L.panicked # NoPanic \/ blocks = <<>> THEN L
    ELSE LET checked == is_valid_proposer_block_that_has_arrived(L, Head(blocks))
         IN  stage_early_blocks(
                IF checked.valid THEN stage_block(checked.ledger, Head(blocks))
                ELSE checked.ledger,
                Tail(blocks))

\* Ledger::next_timeslot
next_timeslot(L) ==
    LET arrived == [L EXCEPT !.current_timeslot = @ + 1]
        timeslot == arrived.current_timeslot
    IN  IF timeslot \in DOMAIN arrived.early_blocks_by_timeslot
        THEN LET staged == stage_early_blocks(arrived,
                                arrived.early_blocks_by_timeslot[timeslot])
             IN  IF staged.panicked # NoPanic THEN staged
                 ELSE [staged EXCEPT !.early_blocks_by_timeslot = map_remove(@, timeslot)]
        ELSE arrived

\* the blocks init_from_genesis creates: one per timeslot of the first
\* CHALLENGE_LOOKBACK_EPOCHS epochs
GenesisTimeslots == CHALLENGE_LOOKBACK_EPOCHS * TIMESLOTS_PER_EPOCH

\* init_from_genesis: the block of one timeslot
genesis_block(current_epoch_index, current_timeslot, parent_id) ==
    LET proof == Proof(current_epoch_index, current_timeslot, OwnKey, 0)
    IN  Block(proof, parent_id,
              <<tx_get_id(CoinbaseTx(BLOCK_REWARD, OwnKey, proof_get_id(proof)))>>,
              "genesis")

\* init_from_genesis: the two nested loops, n counting the blocks made so far
RECURSIVE genesis_loop(_, _, _)
genesis_loop(L, parent_id, n) ==
    IF n = GenesisTimeslots \/ L.panicked # NoPanic THEN L
    ELSE LET advanced == IF n % TIMESLOTS_PER_EPOCH = 0 THEN advance_epoch(L) ELSE L
             current_epoch_index == Len(advanced.epochs) - 1
             current_timeslot == (n % TIMESLOTS_PER_EPOCH)
                                    + current_epoch_index * TIMESLOTS_PER_EPOCH
             block == genesis_block(current_epoch_index, current_timeslot, parent_id)
         IN  genesis_loop(stage_block(advanced, block),
                          content_get_id(block.content), n + 1)

\* Ledger::init_from_genesis
init_from_genesis(L) == genesis_loop(L, ZeroContentId, 0)

\* the order of the tx ids (`pending_tx_ids.sort()`)
TxIdOrder ==
    <<tx_get_id(CreditTx(OwnKey, PeerKey, 1, 1)), tx_get_id(CreditTx(PeerKey, OwnKey, 1, 1)),
      tx_get_id(CreditTx(OwnKey, PeerKey, 7, 1)), tx_get_id(CreditTx(OwnKey, PeerKey, 7, 1 + 1)),
      tx_get_id(CreditTx(PeerKey, OwnKey, 7, 1))>>
sorted_tx_ids(tx_ids) ==
    LET Pending(tx_id) == tx_id \in tx_ids IN SelectSeq(TxIdOrder, Pending)

\* the parent that ignores the siblings made for the same timeslot
parent_ignoring_siblings(L, sibling_content_ids) == L.heads[1].content_id

\* create_and_apply_local_block: the parent is the head, or the parent of the
\* head when the head is a sibling made for the same timeslot
parent_of_local_block(L, sibling_content_ids) ==
    LET head_content_id == L.heads[1].content_id
        Is(content_id) == content_id = head_content_id
    IN  IF SelectSeq(sibling_content_ids, Is) # <<>>
        THEN L.blocks[L.content_to_proof_map[head_content_id]].block.content.parent_id
        ELSE head_content_id

\* Ledger::create_and_apply_local_block; returns the ledger (panicked when
\* the block does not validate) and the block
create_and_apply_local_block(L, solution, sibling_content_ids) ==
    LET proof == Proof(solution.epoch_index, solution.timeslot, OwnKey,
                       solution.piece_index)
        longest_content_id == parent_of_local_block(L, sibling_content_ids)
        tx_ids == <<tx_get_id(CoinbaseTx(BLOCK_REWARD, OwnKey, proof_get_id(proof)))>>
                    \o sorted_tx_ids(L.tx_mempool)
        block == Block(proof, longest_content_id, tx_ids, "valid")
        validated == validate_block(L, block)
    IN  IF L.heads = <<>>
        THEN [ledger |-> panic(L, "index out of bounds: heads[0]"), block |-> block]
        ELSE IF validated.ledger.panicked # NoPanic
        THEN [ledger |-> validated.ledger, block |-> block]
        ELSE IF ~validated.valid
        THEN [ledger |-> panic(L, "Local block must always be valid"), block |-> block]
        ELSE [ledger |-> L, block |-> block]

\* ---- the coordinator: timer, network and solver events

\* Timer ticks in one run of the model.
MaxTicks == 2
LastTimeslot == GenesisTimeslots - 1 + MaxTicks

\* Transaction::is_valid(from_account_state)
tx_is_valid(tx, balances) ==
    /\ tx.from_address \in DOMAIN balances
    /\ balances[tx.from_address].balance >= tx.amount
    /\ balances[tx.from_address].nonce < tx.nonce

\* the content id of the genesis block of timeslot n
RECURSIVE GenesisContentId(_)
GenesisContentId(n) ==
    content_get_id(genesis_block(n \div TIMESLOTS_PER_EPOCH, n,
        IF n = 0 THEN ZeroContentId ELSE GenesisContentId(n - 1)).content)

\* The blocks that peers send.  A peer block forks off the genesis chain
\* at ForkHeight, extends the current head, or extends a fork block.
ForkHeight == GenesisTimeslots - CONFIRMATION_DEPTH - 2
remote_now(L) ==
    IF L.timer_is_running THEN L.current_timeslot ELSE GenesisTimeslots - 1
remote_block(timeslot, piece_index, parent_id, data) ==
    LET proof == Proof(timeslot \div TIMESLOTS_PER_EPOCH, timeslot, PeerKey, piece_index)
    IN  Block(proof, parent_id,
              <<tx_get_id(CoinbaseTx(BLOCK_REWARD, PeerKey, proof_get_id(proof)))>>, data)
fork_block(timeslot) == remote_block(timeslot, 0, GenesisContentId(ForkHeight), "valid")
RemoteBlocks(L) ==
    LET now == remote_now(L)
    IN  {fork_block(t) : t \in {now - 1, now, now + 1}}
        \cup {remote_block(now, 1, L.heads[1].content_id, "valid")}
        \cup {remote_block(now, 2, content_get_id(fork_block(p).content), "valid") :
                p \in {now - 1, now}}
        \cup {remote_block(now, 3, GenesisContentId(ForkHeight), "invalid")}

\* the builds of the u64 arithmetic that behave differently in this state
OverflowChecks(L) ==
    IF L.timer_is_running /\ L.current_timeslot < MAX_EARLY_TIMESLOTS
    THEN BOOLEAN ELSE {TRUE}

\* A handler that panics ends the process: its memory is gone, only the
\* panic message and the history of what it did are left, and no handler
\* runs after it.
Commit(L) ==
    IF L.panicked # NoPanic
    THEN [LedgerNew EXCEPT !.panicked = L.panicked, !.last_op = "run",
                           !.confirmation_depths = L.confirmation_depths,
                           !.heads_sorted = L.heads_sorted,
                           !.siblings_pruned = L.siblings_pruned,
                           !.restaged_unchanged = L.restaged_unchanged,
                           !.cached_children_released = L.cached_children_released,
                           !.gossip_log = L.gossip_log,
                           !.failed_confirms = L.failed_confirms,
                           !.confirmed_pruned = L.confirmed_pruned,
                           !.early_check_underflowed = L.early_check_underflowed,
                           !.credits_guarded = L.credits_guarded,
                           !.tx_applied = L.tx_applied,
                           !.tx_removed = L.tx_removed]
    ELSE [L EXCEPT !.last_op = "run"]
LedgerAlive == ledger.panicked = NoPanic /\ ledger.heads # <<>>

\* the gateway builds the genesis chain
InitFromGenesis ==
    /\ ledger.last_op = "new"
    /\ ledger' = [init_from_genesis(ledger) EXCEPT !.last_op = "init_from_genesis"]
    /\ UNCHANGED <<slothVars, plotVars, networkVars>>

\* the live timer starts at the timeslot of the last genesis block
StartTimer ==
    /\ LedgerAlive /\ ~ledger.timer_is_running
    /\ ledger' = Commit([ledger EXCEPT !.timer_is_running = TRUE,
                                       !.current_timeslot = GenesisTimeslots - 1,
                                       !.solver_timeslot = GenesisTimeslots - 1])
    /\ UNCHANGED <<slothVars, plotVars, networkVars>>

\* a timer tick: a new epoch on an epoch boundary, then Ledger::next_timeslot
Tick ==
    /\ LedgerAlive /\ ledger.timer_is_running
    /\ ledger.current_timeslot < LastTimeslot
    /\ ledger' = Commit(next_timeslot(
            IF (ledger.current_timeslot + 1) % TIMESLOTS_PER_EPOCH = 0
            THEN advance_epoch(ledger) ELSE ledger))
    /\ UNCHANGED <<slothVars, plotVars, networkVars>>

\* GossipMessage::BlockProposal
GossipBlock ==
    /\ LedgerAlive /\ ledger.remote_blocks < MaxRemoteBlocks
    /\ \E block \in RemoteBlocks(ledger), overflow_checks \in OverflowChecks(ledger) :
        LET received == [ledger EXCEPT !.remote_blocks = @ + 1]
            checked == is_valid_proposer_block_from_gossip(received, block, overflow_checks)
        IN  ledger' = Commit(
                IF checked.valid
                THEN stage_cached_children(stage_block(checked.ledger, block),
                                           content_get_id(block.content))
                ELSE checked.ledger)
    /\ UNCHANGED <<slothVars, plotVars, networkVars>>

\* a block received for a timeslot request while the node is syncing
SyncBlock ==
    /\ LedgerAlive /\ ~ledger.timer_is_running
    /\ ledger.remote_blocks < MaxRemoteBlocks
    /\ \E block \in RemoteBlocks(ledger) :
        LET received == [ledger EXCEPT !.remote_blocks = @ + 1]
            checked == is_valid_proposer_block_from_sync(received, block)
        IN  ledger' = Commit(IF checked.valid THEN stage_block(checked.ledger, block)
                             ELSE checked.ledger)
    /\ UNCHANGED <<slothVars, plotVars, networkVars>>

\* ProtocolMessage::BlockSolutions: a block per solution, each staged, the
\* blocks made so far reported as siblings of the next
RECURSIVE apply_solutions(_, _, _)
apply_solutions(L, solutions, sibling_content_ids) ==
    IF L.panicked # NoPanic \/ solutions = <<>> THEN L
    ELSE LET created == create_and_apply_local_block(L, Head(solutions),
                                                     sibling_content_ids)
         IN  IF created.ledger.panicked # NoPanic THEN created.ledger
             ELSE apply_solutions(stage_block(created.ledger, created.block),
                    Tail(solutions),
                    Append(sibling_content_ids, content_get_id(created.block.content)))

\* the solver answers the challenge of the timeslot with one or two solutions
BlockSolutions ==
    /\ LedgerAlive /\ ledger.timer_is_running
    /\ ledger.solver_timeslot < ledger.current_timeslot
    /\ \E timeslot \in {ledger.current_timeslot}, count \in {1, 2} :
        LET solutions == [i \in 1..count |->
                            [epoch_index |-> timeslot \div TIMESLOTS_PER_EPOCH,
                             timeslot |-> timeslot, piece_index |-> i - 1]]
        IN  ledger' = Commit(apply_solutions(
                        [ledger EXCEPT !.solver_timeslot = timeslot], solutions, <<>>))
    /\ UNCHANGED <<slothVars, plotVars, networkVars>>

\* GossipMessage::TxProposal (src/src/manager.rs)
TxProposal ==
    /\ LedgerAlive
    /\ \E tx \in Transactions :
        ledger' = Commit(
            IF tx_get_id(tx) \in DOMAIN ledger.txs THEN ledger
            ELSE IF ~tx_is_valid(tx, ledger.balances) THEN ledger
            ELSE [ledger EXCEPT !.txs = (tx_get_id(tx) :> tx) @@ @,
                                !.tx_mempool = @ \cup {tx_get_id(tx)}])
    /\ UNCHANGED <<slothVars, plotVars, networkVars>>

\* Ledger::new on a gateway node
Init == LedgerIdle /\ SlothIdle /\ PlotIdle /\ NetworkIdle
Next ==
    \/ InitFromGenesis \/ StartTimer \/ Tick \/ GossipBlock \/ SyncBlock
    \/ BlockSolutions \/ TxProposal
Spec == Init /\ [][Next]_vars

\* ---- the sync loop of a new peer (src/src/manager.rs)

\* Heights the peer requests in one run.
MaxSyncHeight == 4

\* the block the gateway made for a height of its chain
served_block(block_height) ==
    genesis_block(block_height \div TIMESLOTS_PER_EPOCH, block_height,
                  IF block_height = 0 THEN ZeroContentId
                  ELSE GenesisContentId(block_height - 1))

\* a block of another farmer at the same height
served_sibling(block_height) ==
    remote_block(block_height, 1, served_block(block_height).content.parent_id, "valid")

\* a second content for the proof of the served block
served_equivocation(block_height) ==
    genesis_block(block_height \div TIMESLOTS_PER_EPOCH, block_height,
                  GenesisContentId(block_height - 2))

\* network.request_blocks(block_height): what a remote peer may answer
request_blocks(block_height) ==
    {<<served_block(block_height)>>,
     <<served_block(block_height), served_block(block_height)>>}
    \cup (IF block_height >= 1
          THEN {<<served_block(block_height), served_sibling(block_height)>>} ELSE {})
    \cup (IF block_height >= 2
          THEN {<<served_block(block_height), served_equivocation(block_height)>>}
          ELSE {})

\* the sync loop: `while timeslot < block_timeslot`
RECURSIVE sync_advance_timeslots(_, _)
sync_advance_timeslots(L, block_timeslot) ==
    IF L.sync_timeslot >= block_timeslot THEN L
    ELSE sync_advance_timeslots(
            [(IF (L.sync_timeslot + 1) % TIMESLOTS_PER_EPOCH = 0
              THEN advance_epoch(L) ELSE L) EXCEPT !.sync_timeslot = @ + 1],
            block_timeslot)

\* the sync loop: `for block in blocks.into_iter()`
RECURSIVE sync_stage_blocks(_, _)
sync_stage_blocks(L, blocks) ==
    IF L.panicked # NoPanic \/ blocks = <<>> THEN L
    ELSE sync_stage_blocks(stage_block(L, Head(blocks)), Tail(blocks))

\* one iteration of the sync loop; arrived: the arrival time of the next
\* timeslot has passed
sync_iteration(L, blocks, arrived) ==
    LET advanced == sync_advance_timeslots(L, blocks[1].proof.timeslot)
        staged == sync_stage_blocks(advanced, blocks)
        on_boundary == IF (staged.sync_timeslot + 1) % TIMESLOTS_PER_EPOCH = 0
                       THEN advance_epoch(staged) ELSE staged
    IN  IF staged.panicked # NoPanic \/ ~arrived THEN staged
        ELSE [on_boundary EXCEPT !.sync_timeslot = @ + 1, !.sync_block_height = @ + 1]

\* Peer or Farmer: the next iteration of the sync loop
SyncRequestBlocks ==
    /\ ledger.panicked = NoPanic /\ ledger.last_op \in {"new", "sync"}
    /\ ledger.sync_block_height <= MaxSyncHeight
    /\ \E blocks \in request_blocks(ledger.sync_block_height), arrived \in BOOLEAN :
        ledger' = [Commit(sync_iteration(ledger, blocks, arrived))
                        EXCEPT !.last_op = IF arrived THEN "sync" ELSE "synced"]
    /\ UNCHANGED <<slothVars, plotVars, networkVars>>

\* Ledger::new on a peer that syncs from the gateway
InitSync == LedgerIdle /\ SlothIdle /\ PlotIdle /\ NetworkIdle
SpecSync == InitSync /\ [][SyncRequestBlocks]_vars

\* ---- an epoch on its own (src/src/timer/epoch.rs)

\* Blocks recorded in the epoch, and calls of close, in one run.
MaxEpochBlocks == 3
MaxCloses == 2

\* Epoch::get_block_count
get_block_count(epoch) ==
    Cardinality(UNION {{<<k, i>> : i \in DOMAIN epoch.timeslots[k]} :
                            k \in DOMAIN epoch.timeslots})

\* the timeslots and block ids handed to add_block_to_timeslot
EpochTimeslots == {0, 1, TIMESLOTS_PER_EPOCH}
EpochBlockIds == {proof_get_id(Proof(0, timeslot, OwnKey, 0)) : timeslot \in {0, 1}}

\* Epoch::add_block_to_timeslot on the epoch
EpochAddBlock ==
    /\ ledger.last_op = "epoch"
    /\ get_block_count(ledger.epochs[1]) < MaxEpochBlocks
    /\ \E timeslot \in EpochTimeslots, block_id \in EpochBlockIds :
        ledger' = [ledger EXCEPT
                    !.epochs[1] = add_block_to_timeslot(@, timeslot, block_id)]
    /\ UNCHANGED <<slothVars, plotVars, networkVars>>

\* Epoch::close on the epoch
EpochClose ==
    /\ ledger.last_op = "epoch"
    /\ Len(ledger.epochs[1].challenges) < MaxCloses * TIMESLOTS_PER_EPOCH
    /\ ledger' = [ledger EXCEPT !.epochs[1] = close(@)]
    /\ UNCHANGED <<slothVars, plotVars, networkVars>>

\* Epoch::new(0, solution_range)
InitEpoch ==
    /\ ledger = [LedgerNew EXCEPT !.epochs = <<EpochNew(0)>>, !.last_op = "epoch"]
    /\ SlothIdle /\ PlotIdle /\ NetworkIdle
EpochNext == EpochAddBlock \/ EpochClose
SpecEpoch == InitEpoch /\ [][EpochNext]_vars

InitSloth == SlothInit /\ PlotIdle /\ LedgerIdle /\ NetworkIdle
SpecSloth == InitSloth /\ [][SlothNext]_vars

\* ---- the broker loop (src/src/plot.rs)

\* result_sender.send(..)
answer(B, client) == [B EXCEPT !.answered = @ \cup {client}]

\* the top of the loop body: did_nothing = true
start_iteration(B) ==
    [B EXCEPT !.did_nothing = TRUE, !.pc = "reads",
              !.reads_at_start = SeqToSet(B.read_requests),
              !.drained = FALSE, !.writes_served = 0]

\* a loop that serves one read request and goes on to the write queue
serve_read_once(B) ==
    IF B.read_requests # <<>>
    THEN [answer(B, Head(B.read_requests)) EXCEPT
            !.read_requests = Tail(@), !.did_nothing = FALSE, !.pc = "write"]
    ELSE [B EXCEPT !.pc = "write", !.drained = TRUE]

\* `while let Ok(read_request) = read_requests_receiver.try_next()`: one pass
serve_read(B) ==
    IF B.read_requests # <<>>
    THEN [answer(B, Head(B.read_requests)) EXCEPT
            !.read_requests = Tail(@), !.did_nothing = FALSE]
    ELSE [B EXCEPT !.pc = "write", !.drained = TRUE]

\* a write served without a note that something was done
serve_write_unnoticed(B) ==
    IF B.write_requests # <<>>
    THEN [answer(B, Head(B.write_requests)) EXCEPT
            !.write_requests = Tail(@), !.pc = "loop",
            !.writes_served = @ + 1]
    ELSE [B EXCEPT !.pc = "loop"]

\* `write_requests_receiver.try_next()` and the match on it
serve_write(B) ==
    IF B.write_requests # <<>>
    THEN [answer(B, Head(B.write_requests)) EXCEPT
            !.write_requests = Tail(@), !.did_nothing = FALSE, !.pc = "loop",
            !.writes_served = @ + 1,
            !.write_after_drain = /\ @
                                  /\ B.drained
                                  /\ B.writes_served = 0
                                  /\ B.reads_at_start \subseteq B.answered]
    ELSE [B EXCEPT !.pc = "loop"]

\* try_send on a clone of any_requests_sender: a channel with room takes the
\* signal; a full one rejects it, unless the clone still has the slot a
\* sender of its own is granted
try_send_outcomes(B) ==
    IF B.any_requests < SignalBuffer THEN {TRUE} ELSE BOOLEAN

\* the task is at `any_requests_receiver.next().await`
BrokerWaits == plot_broker.pc = "loop" /\ plot_broker.did_nothing

\* `if did_nothing { any_requests_receiver.next().await }`, then the loop body
BrokerLoop ==
    /\ plot_broker.pc = "loop"
    /\ BrokerWaits => plot_broker.any_requests > 0
    /\ plot_broker' = start_iteration(
            IF plot_broker.did_nothing
            THEN [plot_broker EXCEPT !.any_requests = @ - 1] ELSE plot_broker)
    /\ UNCHANGED <<plotStore, slothVars, ledgerVars, networkVars>>

BrokerReads ==
    /\ plot_broker.pc = "reads"
    /\ plot_broker' = serve_read(plot_broker)
    /\ UNCHANGED <<plotStore, slothVars, ledgerVars, networkVars>>

BrokerWrite ==
    /\ plot_broker.pc = "write"
    /\ plot_broker' = serve_write(plot_broker)
    /\ UNCHANGED <<plotStore, slothVars, ledgerVars, networkVars>>

\* Plot::read, Plot::write and the like: the send on the request channel
ClientSend ==
    /\ \E client \in Clients, queue \in {"read", "write"} :
        /\ plot_broker.clients[client] = "idle"
        /\ plot_broker' = [plot_broker EXCEPT
                !.clients[client] = "sent",
                !.read_requests = IF queue = "read" THEN Append(@, client) ELSE @,
                !.write_requests = IF queue = "write" THEN Append(@, client) ELSE @]
    /\ UNCHANGED <<plotStore, slothVars, ledgerVars, networkVars>>

\* `let _ = self.any_requests_sender.clone().try_send(())`
ClientSignal ==
    /\ \E client \in Clients, accepted \in try_send_outcomes(plot_broker) :
        /\ plot_broker.clients[client] = "sent"
        /\ plot_broker' = [plot_broker EXCEPT
                !.clients[client] = "waiting",
                !.any_requests = IF accepted THEN @ + 1 ELSE @,
                !.ignored = IF accepted THEN @ ELSE @ \cup {client}]
    /\ UNCHANGED <<plotStore, slothVars, ledgerVars, networkVars>>

BrokerStep == BrokerLoop \/ BrokerReads \/ BrokerWrite
BrokerNext == BrokerStep \/ ClientSend \/ ClientSignal

\* Plot::open_or_create, with the broker running
InitBroker == PlotIdle /\ SlothIdle /\ LedgerIdle /\ NetworkIdle
SpecBroker == InitBroker /\ [][BrokerNext]_vars
\* the executor runs every task that can run: the broker, and a client that
\* is between its send and its try_send
SpecBrokerFair ==
    /\ InitBroker /\ [][BrokerNext]_vars
    /\ WF_vars(BrokerStep) /\ WF_vars(ClientSignal)

\* ---- gossip on a running gateway (src/src/ledger.rs, src/src/manager.rs)

\* Timer ticks and gossip blocks in one run of the gossip model.
MaxGossipTicks == 5
MaxGossipBlocks == 1 + 1

\* the gateway after init_from_genesis, with its timer started
GossipStart ==
    Commit([init_from_genesis(LedgerNew) EXCEPT
                !.timer_is_running = TRUE,
                !.current_timeslot = GenesisTimeslots - 1,
                !.solver_timeslot = GenesisTimeslots - 1])

\* a block a peer makes: its proof names an epoch and a timeslot
peer_block(epoch, timeslot, piece_index, parent_id) ==
    LET proof == Proof(epoch, timeslot, PeerKey, piece_index)
    IN  Block(proof, parent_id,
              <<tx_get_id(CoinbaseTx(BLOCK_REWARD, PeerKey, proof_get_id(proof)))>>,
              "valid")

\* the parent whose height + CONFIRMATION_DEPTH is the height of the
\* genesis head
BoundaryHeight == GenesisTimeslots - 1 - CONFIRMATION_DEPTH

\* The blocks that peers gossip: children of the head for this and for
\* coming timeslots, children of a block below the confirmation depth for
\* past, this and the next timeslot, a child of the block at the
\* confirmation depth, and a block whose proof names the epoch after the
\* current one.
GossipBlocks(L) ==
    LET now == L.current_timeslot
        epoch_of(timeslot) == timeslot \div TIMESLOTS_PER_EPOCH
    IN  {peer_block(epoch_of(t), t, 1, L.heads[1].content_id) :
            t \in {now, now + 1, now + MAX_EARLY_TIMESLOTS,
                   now + MAX_EARLY_TIMESLOTS + 1}}
        \cup {peer_block(epoch_of(t), t, 0, GenesisContentId(ForkHeight)) :
                t \in {now - MAX_EARLY_TIMESLOTS - 1, now, now + 1}}
        \cup {peer_block(epoch_of(now), now, 2, GenesisContentId(BoundaryHeight))}
        \cup {peer_block(epoch_of(now) + 1, now, 3, GenesisContentId(ForkHeight))}

\* get_lookback_epoch(block.proof.epoch) is an epoch that is not closed
lookback_is_open(L, block) ==
    LET index == block.proof.epoch - CHALLENGE_LOOKBACK_EPOCHS
    IN  /\ index >= 0 /\ index + 1 \in DOMAIN L.epochs
        /\ ~L.epochs[index + 1].is_closed

\* history: what a validation of a remote block saw and what it left
Observed(via, before, block, valid, after) ==
    [via |-> via, block |-> block, now |-> before.current_timeslot,
     parent_height |-> IF parent_is_known(before, block)
                       THEN parent_metablock(before, block).height ELSE -1,
     head_height |-> before.heads[1].block_height,
     parent_timeslot |-> IF parent_is_known(before, block)
                         THEN parent_metablock(before, block).block.proof.timeslot
                         ELSE -1,
     deep_fork |-> parent_is_known(before, block)
                   /\ would_cause_deep_fork(before, block),
     lookback_open |-> lookback_is_open(before, block),
     valid |-> valid,
     alive |-> after.panicked = NoPanic,
     staged |-> /\ proof_get_id(block.proof) \notin DOMAIN before.blocks
                /\ proof_get_id(block.proof) \in DOMAIN after.blocks,
     in_early_blocks |->
        /\ block.proof.timeslot \in DOMAIN after.early_blocks_by_timeslot
        /\ block \in SeqToSet(after.early_blocks_by_timeslot[block.proof.timeslot])]

\* history: a call of EpochTracker::advance_epoch, of Ledger::stage_block
AdvanceEpochCall == [call |-> "advance_epoch", block |-> <<>>]
StageBlockCall(block) == [call |-> "stage_block", block |-> block]

\* history of next_timeslot: one observation per early block of the timeslot
RECURSIVE arrivals(_, _)
RECURSIVE arrival_observed(_, _, _)
arrival_observed(L, blocks, after) ==
    <<Observed("arrived", L, Head(blocks),
               is_valid_proposer_block_that_has_arrived(L, Head(blocks)).valid, after)>>
    \o arrivals(after, Tail(blocks))
arrivals(L, blocks) ==
    IF L.panicked # NoPanic \/ blocks = <<>> THEN <<>>
    ELSE arrival_observed(L, blocks, stage_early_blocks(L, <<Head(blocks)>>))

\* history: the stage_block calls of the validations that returned true
staged_calls(observed) ==
    LET Valid(o) == o.valid
        valid == SelectSeq(observed, Valid)
    IN  [k \in DOMAIN valid |-> StageBlockCall(valid[k].block)]

\* history: the observations and the calls of a handler, added to the
\* ledger it leaves
calls_recorded(after, observed, calls) ==
    [after EXCEPT !.gossip_log = @ \cup SeqToSet(observed),
                  !.staging_calls = @ \o calls \o staged_calls(observed)]

\* the timer task on an epoch boundary: EpochTracker::advance_epoch
advance_on_boundary(L) ==
    IF (L.current_timeslot + 1) % TIMESLOTS_PER_EPOCH = 0 THEN advance_epoch(L) ELSE L

\* the early blocks of the timeslot that arrives
arriving_blocks(L) ==
    IF L.current_timeslot + 1 \in DOMAIN L.early_blocks_by_timeslot
    THEN L.early_blocks_by_timeslot[L.current_timeslot + 1] ELSE <<>>

\* Ledger::next_timeslot, with its history
timeslot_arrives(before, advanced) ==
    calls_recorded(next_timeslot(advanced),
        arrivals([advanced EXCEPT !.current_timeslot = @ + 1], arriving_blocks(advanced)),
        IF (before.current_timeslot + 1) % TIMESLOTS_PER_EPOCH = 0
        THEN <<AdvanceEpochCall>> ELSE <<>>)

\* a timer tick: a new epoch on an epoch boundary, then Ledger::next_timeslot
GossipTick ==
    /\ LedgerAlive
    /\ ledger.current_timeslot < GenesisTimeslots - 1 + MaxGossipTicks
    /\ ledger' = Commit(timeslot_arrives(ledger, advance_on_boundary(ledger)))
    /\ UNCHANGED <<slothVars, plotVars, networkVars>>

\* the gossip handler after the validation: the block staged when valid,
\* then its cached children
block_received(received, block, checked) ==
    IF checked.valid
    THEN stage_cached_children(stage_block(checked.ledger, block),
                               content_get_id(block.content))
    ELSE checked.ledger

\* the gossip handler, with its history
block_observed(received, block, valid, after) ==
    calls_recorded(after, <<Observed("gossip", received, block, valid, after)>>, <<>>)

block_proposal(received, block, checked) ==
    block_observed(received, block, checked.valid,
                   block_received(received, block, checked))

\* GossipMessage::BlockProposal on the running gateway
GossipReceive ==
    /\ LedgerAlive /\ ledger.remote_blocks < MaxGossipBlocks
    /\ \E block \in GossipBlocks(ledger), overflow_checks \in OverflowChecks(ledger) :
        ledger' = Commit(block_proposal(
            [ledger EXCEPT !.remote_blocks = @ + 1], block,
            is_valid_proposer_block_from_gossip(
                [ledger EXCEPT !.remote_blocks = @ + 1], block, overflow_checks)))
    /\ UNCHANGED <<slothVars, plotVars, networkVars>>

\* ---- a second ledger given the same calls

\* The orders in which a HashMap<u64, Vec<BlockId>> with the keys
\* 0 .. TIMESLOTS_PER_EPOCH - 1 can iterate (each map is seeded at random).
HashOrders ==
    {order \in [1 .. TIMESLOTS_PER_EPOCH -> 0 .. (TIMESLOTS_PER_EPOCH - 1)] :
        \A i, j \in DOMAIN order : order[i] = order[j] => i = j}

\* self.timeslots.values().flatten() with the keys visited in `order`
RECURSIVE values_flatten(_, _)
values_flatten(timeslots, order) ==
    IF order = <<>> THEN <<>>
    ELSE (IF Head(order) \in DOMAIN timeslots THEN timeslots[Head(order)] ELSE <<>>)
         \o values_flatten(timeslots, Tail(order))

\* a fold step that keeps the block id alone
xor_bytes_keeping_last(folded, block_id) == {block_id}

\* utils::xor_bytes(&mut randomness, &block_id): `folded` is the set of the
\* ids XORed into the randomness so far, a pair of equal ids cancelling
xor_bytes(folded, block_id) ==
    IF block_id \in folded THEN folded \ {block_id} ELSE folded \cup {block_id}

\* .fold(self.randomness, |randomness, block_id| xor_bytes(..))
RECURSIVE fold_xor_bytes(_, _)
fold_xor_bytes(folded, block_ids) ==
    IF block_ids = <<>> THEN folded
    ELSE fold_xor_bytes(xor_bytes(folded, Head(block_ids)), Tail(block_ids))

\* Epoch::close with the timeslots visited in `order`
close_in_order(epoch, order) ==
    LET folded == fold_xor_bytes({}, values_flatten(epoch.timeslots, order))
        xor_result == IF folded = {} THEN epoch.randomness
                      ELSE <<"xor", epoch.randomness, folded>>
        randomness == digest_sha_256(xor_result)
    IN  [epoch EXCEPT
            !.randomness = randomness,
            !.challenges = @ \o [i \in 1 .. TIMESLOTS_PER_EPOCH |->
                                    slot_challenge(randomness, i - 1)],
            !.is_closed = TRUE]

\* EpochTracker::advance_epoch of the second ledger
advance_epoch_in_order(L, order) ==
    LET new_index == Len(L.epochs)
        created == Append(L.epochs, EpochNew(new_index))
        lookback == new_index - CHALLENGE_LOOKBACK_EPOCHS
    IN  [L EXCEPT !.epochs =
            IF lookback >= 0 /\ ~created[lookback + 1].is_closed
            THEN [created EXCEPT ![lookback + 1] = close_in_order(@, order)]
            ELSE created]

\* the second ledger after the calls
RECURSIVE replay(_, _, _)
replay(L, calls, order) ==
    IF calls = <<>> THEN L
    ELSE replay(IF Head(calls).call = "advance_epoch"
                THEN advance_epoch_in_order(L, order)
                ELSE stage_block(L, Head(calls).block),
                Tail(calls), order)

InitGossip == ledger = GossipStart /\ SlothIdle /\ PlotIdle /\ NetworkIdle
GossipNext == GossipTick \/ GossipReceive
SpecGossip == InitGossip /\ [][GossipNext]_vars

\* ---- payments on a running gateway (src/src/ledger.rs, src/src/manager.rs)

\* GossipMessage::TxProposal with the payments of CreditTransactions
CreditProposal ==
    /\ LedgerAlive
    /\ \E tx \in CreditTransactions :
        ledger' = Commit(
            IF tx_get_id(tx) \in DOMAIN ledger.txs THEN ledger
            ELSE IF ~tx_is_valid(tx, ledger.balances) THEN ledger
            ELSE [ledger EXCEPT !.txs = (tx_get_id(tx) :> tx) @@ @,
                                !.tx_mempool = @ \cup {tx_get_id(tx)}])
    /\ UNCHANGED <<slothVars, plotVars, networkVars>>

InitCredit == ledger = GossipStart /\ SlothIdle /\ PlotIdle /\ NetworkIdle
CreditNext == CreditProposal \/ Tick \/ BlockSolutions
SpecCredit == InitCredit /\ [][CreditNext]_vars

\* ---- blocks that name transactions the gateway never received

\* a credit of a peer that was gossiped to other nodes only
UnknownTx == CreditTx(PeerKey, OwnKey, 7, 1)

\* a block a peer makes whose content lists the credit after the coinbase
unknown_tx_block(timeslot, piece_index, parent_id) ==
    LET proof == Proof(timeslot \div TIMESLOTS_PER_EPOCH, timeslot, PeerKey, piece_index)
    IN  Block(proof, parent_id,
              <<tx_get_id(CoinbaseTx(BLOCK_REWARD, PeerKey, proof_get_id(proof))),
                tx_get_id(UnknownTx)>>,
              "valid")

\* The blocks that peers gossip: blocks with the unknown credit on the head
\* and on a block below the confirmation depth, and a child of each.
UnknownTxBlocks(L) ==
    LET now == L.current_timeslot
        parents == {unknown_tx_block(t, 0, GenesisContentId(ForkHeight)) :
                        t \in {now - 1, now}}
                   \cup {unknown_tx_block(now, 1, L.heads[1].content_id)}
    IN  parents
        \cup {peer_block(now \div TIMESLOTS_PER_EPOCH, now, 2,
                         content_get_id(parent.content)) : parent \in parents}

\* GossipMessage::BlockProposal with a block of UnknownTxBlocks
UnknownTxProposal ==
    /\ LedgerAlive /\ ledger.remote_blocks < MaxGossipBlocks
    /\ \E block \in UnknownTxBlocks(ledger), overflow_checks \in OverflowChecks(ledger) :
        ledger' = Commit(block_proposal(
            [ledger EXCEPT !.remote_blocks = @ + 1], block,
            is_valid_proposer_block_from_gossip(
                [ledger EXCEPT !.remote_blocks = @ + 1], block, overflow_checks)))
    /\ UNCHANGED <<slothVars, plotVars, networkVars>>

InitConfirm == ledger = GossipStart /\ SlothIdle /\ PlotIdle /\ NetworkIdle
ConfirmNext == UnknownTxProposal \/ Tick \/ BlockSolutions
SpecConfirm == InitConfirm /\ [][ConfirmNext]_vars

\* ---- requests and responses (src/src/network.rs)

\* u32::wrapping_add(1)
wrapping_add_one(id) == (id + 1) % (2 ^ IdBits)

\* HashMap::remove that leaves the entry
handlers_remove_nothing(handlers, id) == handlers

\* HashMap::remove
handlers_remove(handlers, id) ==
    [i \in DOMAIN handlers \ {id} |-> handlers[i]]

\* Network::request up to future::or: the handler is registered under
\* next_id, then the message is checked and handed to a peer
request(N, message_too_long, has_peers) ==
    LET id == N.next_id
        k == Len(N.requests) + 1
        registered == [N EXCEPT !.next_id = wrapping_add_one(@),
                                !.handlers = (id :> k) @@ @]
        call(pc, result) == [id |-> id, pc |-> pc, result |-> result,
                             received |-> 0, responded |-> FALSE]
    IN  IF message_too_long
        THEN [registered EXCEPT
                !.handlers = handlers_remove(@, id),
                !.requests = Append(@, call("done", "MessageTooLong"))]
        ELSE IF ~has_peers
        THEN [registered EXCEPT !.requests = Append(@, call("done", "NoPeers"))]
        ELSE [registered EXCEPT !.requests = Append(@, call("waiting", "none"))]

\* the request k holds the sender registered under its id
holds_handler(N, k) ==
    /\ N.requests[k].id \in DOMAIN N.handlers
    /\ N.handlers[N.requests[k].id] = k

\* handle_messages, Message::Response { id, message }: the sender registered
\* under the id is taken out and given the message, or the message is dropped
handle_response(N, response) ==
    LET to == N.handlers[response.id]
    IN  IF response.id \in DOMAIN N.handlers
        THEN [N EXCEPT
                !.handlers = handlers_remove(@, response.id),
                !.requests[to].received = response.answers,
                !.delivered = @ \cup
                    {[answers |-> response.answers, to |-> to,
                      late |-> N.requests[response.answers].result = "TimedOut"]}]
        ELSE N

\* Network::request, the timer branch of future::or
timed_out(N, k) ==
    [N EXCEPT !.handlers = handlers_remove(@, N.requests[k].id),
              !.requests[k].pc = "done",
              !.requests[k].result = "TimedOut"]

\* a caller makes a request
NetworkRequest ==
    /\ Len(network.requests) < MaxRequests
    /\ \E message_too_long \in BOOLEAN, has_peers \in BOOLEAN :
        network' = request(network, message_too_long, has_peers)
    /\ UNCHANGED <<slothVars, plotVars, ledgerVars>>

\* the peer that was sent the request answers it, at any time
PeerResponds ==
    /\ \E k \in DOMAIN network.requests :
        /\ network.requests[k].result \notin {"MessageTooLong", "NoPeers"}
        /\ ~network.requests[k].responded
        /\ network' = [network EXCEPT
                !.requests[k].responded = TRUE,
                !.in_flight = @ \cup {[id |-> network.requests[k].id, answers |-> k]}]
    /\ UNCHANGED <<slothVars, plotVars, ledgerVars>>

\* handle_messages reads a response from the connection
HandleResponse ==
    /\ \E response \in network.in_flight :
        network' = [handle_response(network, response) EXCEPT
                        !.in_flight = @ \ {response}]
    /\ UNCHANGED <<slothVars, plotVars, ledgerVars>>

\* future::or, first branch: the receiver has the message
RequestReturns ==
    /\ \E k \in DOMAIN network.requests :
        /\ network.requests[k].pc = "waiting"
        /\ network.requests[k].received # 0
        /\ network' = [network EXCEPT !.requests[k].pc = "done",
                                      !.requests[k].result = "Ok"]
    /\ UNCHANGED <<slothVars, plotVars, ledgerVars>>

\* future::or, first branch: the sender was dropped, by an insert under the
\* same id
RequestClosed ==
    /\ \E k \in DOMAIN network.requests :
        /\ network.requests[k].pc = "waiting"
        /\ network.requests[k].received = 0
        /\ ~holds_handler(network, k)
        /\ network' = [network EXCEPT !.requests[k].pc = "done",
                                      !.requests[k].result = "ConnectionClosed"]
    /\ UNCHANGED <<slothVars, plotVars, ledgerVars>>

\* future::or, second branch: REQUEST_TIMEOUT has passed with the receiver
\* still pending
RequestTimeout ==
    /\ \E k \in DOMAIN network.requests :
        /\ network.requests[k].pc = "waiting"
        /\ network.requests[k].received = 0
        /\ holds_handler(network, k)
        /\ network' = timed_out(network, k)
    /\ UNCHANGED <<slothVars, plotVars, ledgerVars>>

InitNetwork == NetworkIdle /\ SlothIdle /\ PlotIdle /\ LedgerIdle
NetworkNext ==
    \/ NetworkRequest \/ PeerResponds \/ HandleResponse
    \/ RequestReturns \/ RequestClosed \/ RequestTimeout
SpecNetwork == InitNetwork /\ [][NetworkNext]_vars

\* ---- a peer that has synced and listens to gossip

\* Blocks gossiped in one run of the peer.
MaxPeerBlocks == 1 + 1

\* ledger.start_timer(.., timeslot, ..) at the end of the sync loop: the
\* live timer starts at the timeslot the loop has reached
PeerStartTimer ==
    /\ ledger.panicked = NoPanic /\ ledger.last_op = "synced"
    /\ ledger.heads # <<>>
    /\ ledger' = [ledger EXCEPT !.timer_is_running = TRUE,
                                !.current_timeslot = ledger.sync_timeslot,
                                !.last_op = "run"]
    /\ UNCHANGED <<slothVars, plotVars, networkVars>>

\* the blocks that farmers gossip: children of the head of the peer, for the
\* timeslot of the peer and for the timeslots after it
PeerGossipBlocks(L) ==
    {peer_block(t \div TIMESLOTS_PER_EPOCH, t, 1, L.heads[1].content_id) :
        t \in {L.current_timeslot, L.current_timeslot + 1,
               L.current_timeslot + MAX_EARLY_TIMESLOTS + 1}}

\* GossipMessage::BlockProposal on the peer
PeerGossipReceive ==
    /\ LedgerAlive /\ ledger.timer_is_running
    /\ ledger.remote_blocks < MaxPeerBlocks
    /\ \E block \in PeerGossipBlocks(ledger), overflow_checks \in BOOLEAN :
        ledger' = Commit(block_proposal(
            [ledger EXCEPT !.remote_blocks = @ + 1], block,
            is_valid_proposer_block_from_gossip(
                [ledger EXCEPT !.remote_blocks = @ + 1], block, overflow_checks)))
    /\ UNCHANGED <<slothVars, plotVars, networkVars>>

InitPeer == LedgerIdle /\ SlothIdle /\ PlotIdle /\ NetworkIdle
PeerNext == SyncRequestBlocks \/ PeerStartTimer \/ PeerGossipReceive
SpecPeer == InitPeer /\ [][PeerNext]_vars

\* ---- the walk of stage_cached_children over the cache (src/src/ledger.rs)
\* Content ids are hashes; here they are names, so that the cache can hold
\* blocks that name each other as parents.

\* the content ids: that of the parent the walk starts from, and two more
WalkParent == "p"
WalkIds == {WalkParent, "a", "b"}
MaxWalkTimeslot == 2

\* what a cached block holds next to its content id: the parent its content
\* names, the timeslot of its proof, and whether validate_block accepts it
CachedContents ==
    [parent_id : WalkIds, timeslot : 0 .. MaxWalkTimeslot, data : {"valid", "invalid"}]

\* the caches: at most one block per content id
Caches ==
    UNION {{{[id |-> id, parent_id |-> held[id].parent_id, timeslot |-> held[id].timeslot,
              data |-> held[id].data] : id \in present} :
            held \in [present -> CachedContents]} : present \in SUBSET WalkIds}

\* cached_blocks_by_parent_content_id.get(&parent_id).cloned().unwrap_or_default()
WalkIdOrder == <<WalkParent, "a", "b">>
walk_cached_children(W, parent_id) ==
    LET Cached(id) == \E block \in W.cache : block.id = id /\ block.parent_id = parent_id
        ids == SelectSeq(WalkIdOrder, Cached)
    IN  [k \in DOMAIN ids |-> CHOOSE block \in W.cache : block.id = ids[k]]

\* the walk before stage_cached_children(parent_id): the parent is staged
WalkNew(cache, parent_timeslot) ==
    [pc |-> "start", cache |-> cache,
     staged |-> (WalkParent :> parent_timeslot),   \* metablocks: id -> timeslot
     blocks |-> <<>>, additional_blocks |-> <<>>]

\* is_valid_proposer_block_from_cache that does not compare the timeslots
walk_parent_is_never_in_the_future(W, block) == FALSE

\* is_valid_proposer_block_from_cache: "ensure the parent is from an earlier
\* timeslot"
walk_parent_is_in_the_future(W, block) ==
    W.staged[block.parent_id] >= block.timeslot

\* stage_cached_children: let mut blocks = cache.get(&parent_id)
walk_start(W) ==
    [W EXCEPT !.pc = "loop", !.blocks = walk_cached_children(W, WalkParent)]

\* stage_cached_children: one block of `for block in blocks.drain(..)`
walk_block(W) ==
    LET block == Head(W.blocks)
    IN  IF walk_parent_is_in_the_future(W, block) \/ block.data # "valid"
        THEN [W EXCEPT !.blocks = Tail(@)]
        ELSE [W EXCEPT
                !.blocks = Tail(@),
                !.staged = (block.id :> block.timeslot) @@ @,
                !.additional_blocks = @ \o walk_cached_children(W, block.id)]

\* stage_cached_children: mem::swap(&mut blocks, &mut additional_blocks) and
\* the test of `while blocks.len() > 0`
walk_swap(W) ==
    [W EXCEPT !.blocks = W.additional_blocks, !.additional_blocks = <<>>,
              !.pc = IF W.additional_blocks = <<>> THEN "done" ELSE "loop"]

WalkStart ==
    /\ ledger.cache_walk.pc = "start"
    /\ ledger' = [ledger EXCEPT !.cache_walk = walk_start(@)]
    /\ UNCHANGED <<slothVars, plotVars, networkVars>>

WalkBlock ==
    /\ ledger.cache_walk.pc = "loop" /\ ledger.cache_walk.blocks # <<>>
    /\ ledger' = [ledger EXCEPT !.cache_walk = walk_block(@)]
    /\ UNCHANGED <<slothVars, plotVars, networkVars>>

WalkSwap ==
    /\ ledger.cache_walk.pc = "loop" /\ ledger.cache_walk.blocks = <<>>
    /\ ledger' = [ledger EXCEPT !.cache_walk = walk_swap(@)]
    /\ UNCHANGED <<slothVars, plotVars, networkVars>>

InitWalk ==
    /\ \E cache \in Caches, parent_timeslot \in 0 .. MaxWalkTimeslot :
        ledger = [LedgerNew EXCEPT !.cache_walk = WalkNew(cache, parent_timeslot)]
    /\ SlothIdle /\ PlotIdle /\ NetworkIdle
WalkNext == WalkStart \/ WalkBlock \/ WalkSwap
\* the walk runs in one task, which the executor keeps running
SpecWalk == InitWalk /\ [][WalkNext]_vars /\ WF_vars(WalkNext)

\* Plot::open_or_create on an empty directory
InitPlot == PlotIdle /\ SlothIdle /\ LedgerIdle /\ NetworkIdle
SpecPlot == InitPlot /\ [][PlotNext]_vars

(***************************************************************************)
(*                               Claims                                    *)
(***************************************************************************)

\* C1: a read of index i returns exactly the encoding of the most recent
\* completed write of i, as long as i was not removed since, whatever other
\* requests were served in between.
C1_ReadReturnsLastWrite ==
    (plot_reply.op = "read" /\ plot_written[plot_reply.index] # NoEncoding)
        => plot_reply.result = plot_written[plot_reply.index]

\* The wrap-around distance between two tag values.
WrapDistance(a, b) ==
    LET d == (a - b + TagSpace) % TagSpace
    IN  IF d <= TagSpace - d THEN d ELSE TagSpace - d

\* C8: find_by_range(target, range) returns exactly the stored (tag, index)
\* pairs whose big-endian tag value is within wrap-around distance range/2
\* of the target, each once.
C8_FindByRangeExact ==
    plot_reply.op = "find_by_range" =>
        /\ SeqToSet(plot_reply.result) =
               {<<k, usize_from_le_bytes(tags_db[k])>> : k \in
                   {k \in DOMAIN tags_db :
                       WrapDistance(tag_from_be_bytes(k),
                                    tag_from_be_bytes(plot_reply.target))
                           <= plot_reply.range \div 2}}
        /\ Cardinality(SeqToSet(plot_reply.result)) = Len(plot_reply.result)

\* C8 witness: tags 1 and TagSpace - 2 are stored, the target is 0 and the
\* range 4, and both tags are returned.
C8_Witness ==
    /\ plot_reply.op = "find_by_range"
    /\ tag_from_be_bytes(plot_reply.target) = 0
    /\ plot_reply.range = 4
    /\ DOMAIN tags_db = {tag_to_be_bytes(1), tag_to_be_bytes(TagSpace - 2)}
    /\ Len(plot_reply.result) = 2

\* C3: for every x with 0 <= x < p, inverse_sqrt(sqrt_permutation(x)) = x.
C3_SqrtRoundTrip == sloth_pc = "inverted" => sloth_data = sloth_data_in

\* C2: whenever encode meets no block at or above the prime,
\* decode(encode(P, I, L), I, L) = P.
C2_PieceRoundTrip == sloth_pc = "decoded" => sloth_piece = sloth_input

\* ---- the ledger (Spec)

\* the metablock a content id names
metablock_of(content_id) == ledger.blocks[ledger.content_to_proof_map[content_id]]

\* the block has a parent in metablocks
HasParent(metablock) ==
    /\ metablock.block.content.parent_id \in DOMAIN ledger.content_to_proof_map
    /\ ledger.content_to_proof_map[metablock.block.content.parent_id]
            \in DOMAIN ledger.blocks

\* C4: after every stage_block, with the update_heads, the confirmation and
\* the pruning it triggers, heads[0].block_height is greater than or equal to
\* the block_height of every other entry of heads.
C4_HeadZeroIsHighest == ledger.heads_sorted /\ HeadsSorted(ledger.heads)

\* C4 witness: blocks were staged and left a second head beside heads[0].
C4_Witness ==
    /\ ledger.panicked = NoPanic
    /\ Len(ledger.heads) >= 2
    /\ ledger.heads[2].block_height = ledger.heads[1].block_height

\* C5: each credit transaction changes balances at most once and leaves the
\* mempool at most once; a confirmed block that references a credit tx id no
\* longer in the mempool changes no balance.
C5_CreditAppliedOnce ==
    \A tx_id \in TransactionIds :
        ledger.tx_applied[tx_id] <= 1 /\ ledger.tx_removed[tx_id] <= 1

\* C5 witness: a block that holds a credit tx was confirmed by the staging of
\* each of its two children, and the credit moved the balance once.
C5_Witness ==
    /\ ledger.panicked = NoPanic
    /\ \E proof_id \in DOMAIN ledger.blocks, tx_id \in TransactionIds :
        /\ \E i \in DOMAIN ledger.blocks[proof_id].block.content.tx_ids :
                ledger.blocks[proof_id].block.content.tx_ids[i] = tx_id
        /\ Len(ledger.blocks[proof_id].children) >= 2
        /\ ledger.tx_applied[tx_id] = 1
        /\ tx_id \notin ledger.tx_mempool

\* C6: stage_block of a block confirms only the ancestor exactly
\* CONFIRMATION_DEPTH generations above it, and nothing when the block has
\* fewer ancestors.
C6_ConfirmsOnlyKDeep == ledger.confirmation_depths \subseteq {CONFIRMATION_DEPTH}

\* what init_from_genesis leaves, but for the balance: GenesisTimeslots
\* blocks at heights 0 .. GenesisTimeslots - 1 on one chain
GenesisChain ==
    /\ Cardinality(DOMAIN ledger.blocks) = GenesisTimeslots
    /\ {ledger.blocks[proof_id].height : proof_id \in DOMAIN ledger.blocks}
            = 0 .. (GenesisTimeslots - 1)
    /\ Len(ledger.heads) = 1
    /\ ledger.heads[1].block_height = GenesisTimeslots - 1
    /\ \A proof_id \in DOMAIN ledger.blocks :
            Len(ledger.blocks[proof_id].children)
                = IF ledger.blocks[proof_id].height = GenesisTimeslots - 1 THEN 0 ELSE 1

C9_ParentInMetablocks ==
    \A proof_id \in DOMAIN ledger.blocks :
        ledger.blocks[proof_id].block.proof.timeslot # 0
            => HasParent(ledger.blocks[proof_id])

\* C9 witness: sibling pruning has removed a staged block, and blocks with a
\* parent remain.
C9_Witness ==
    /\ ledger.panicked = NoPanic
    /\ \E timeslot \in DOMAIN ledger.proof_ids_by_timeslot :
        \E i \in DOMAIN ledger.proof_ids_by_timeslot[timeslot] :
            ledger.proof_ids_by_timeslot[timeslot][i] \notin DOMAIN ledger.blocks
    /\ \E proof_id \in DOMAIN ledger.blocks :
            ledger.blocks[proof_id].block.proof.timeslot >= GenesisTimeslots

\* C10: for every block in metablocks that has a parent in metablocks, the
\* parent's proof timeslot is strictly smaller than the block's, for blocks
\* from gossip, sync, the orphan cache, the early-block queue and the solver.
C10_ParentTimeslotSmaller ==
    \A proof_id \in DOMAIN ledger.blocks :
        HasParent(ledger.blocks[proof_id]) =>
            metablock_of(ledger.blocks[proof_id].block.content.parent_id)
                    .block.proof.timeslot
                < ledger.blocks[proof_id].block.proof.timeslot

\* C10 witness: metablocks holds a block of a peer and two local blocks of
\* one timeslot.
C10_Witness ==
    /\ ledger.panicked = NoPanic
    /\ \E proof_id \in DOMAIN ledger.blocks :
            ledger.blocks[proof_id].block.proof.public_key = PeerKey
    /\ \E first, second \in DOMAIN ledger.blocks :
        /\ first # second
        /\ ledger.blocks[first].block.proof.timeslot >= GenesisTimeslots
        /\ ledger.blocks[first].block.proof.timeslot
                = ledger.blocks[second].block.proof.timeslot
        /\ ledger.blocks[first].block.proof.public_key = OwnKey
        /\ ledger.blocks[second].block.proof.public_key = OwnKey

\* C11: no sequence of stagings of validated blocks makes confirmation prune
\* the branch that ends at heads[0]: the abort "Cannot prune head of the
\* longest chain!" is never reached.
C11_HeadNeverPruned == ledger.panicked # "Cannot prune head of the longest chain!"

\* C12: after confirm_block(X) for a block X with height > 0, every sibling
\* of X and every descendant of a sibling is absent from metablocks.blocks and
\* from content_to_proof_map, no head ends a pruned branch, and X is the only
\* child left in the children list of its parent.
C12_SiblingsPruned == ledger.siblings_pruned

\* C12 witness: a confirmed block with height > 0 is the only child of its
\* parent, and a block staged for its timeslot is gone from metablocks.
C12_Witness ==
    /\ ledger.panicked = NoPanic
    /\ \E proof_id \in ledger.blocks_on_longest_chain \cap DOMAIN ledger.blocks :
        LET metablock == ledger.blocks[proof_id]
            timeslot == metablock.block.proof.timeslot
        IN  /\ metablock.height > 0
            /\ HasParent(metablock)
            /\ metablock_of(metablock.block.content.parent_id).children = <<proof_id>>
            /\ \E other \in SeqToSet(ledger.proof_ids_by_timeslot[timeslot]) :
                    other # proof_id /\ other \notin DOMAIN ledger.blocks

\* the balance of an account, 0 when the account has no state
BalanceOf(L, address) ==
    IF address \in DOMAIN L.balances THEN L.balances[address].balance ELSE 0

\* what the credit transactions applied between two ledgers add to an account
RECURSIVE CreditedBetween(_, _, _, _)
CreditedBetween(before, after, address, txs) ==
    IF txs = {} THEN 0
    ELSE LET tx == CHOOSE t \in txs : TRUE
             times == after.tx_applied[tx_get_id(tx)] - before.tx_applied[tx_get_id(tx)]
         IN  (IF tx.to_address = address THEN times * tx.amount ELSE 0)
             - (IF tx.from_address = address THEN times * tx.amount ELSE 0)
             + CreditedBetween(before, after, address, txs \ {tx})

\* C13: confirmation is monotonic. A proof id in blocks_on_longest_chain stays
\* there, and no step of a running node takes back a balance change: an
\* account changes by the credit transactions applied in the step and by
\* block rewards, which only add.
C13_ConfirmationMonotonic ==
    [][ledger'.panicked = NoPanic =>
        /\ ledger.blocks_on_longest_chain \subseteq ledger'.blocks_on_longest_chain
        /\ \A address \in {OwnKey, PeerKey} :
            BalanceOf(ledger', address) - BalanceOf(ledger, address)
                >= CreditedBetween(ledger, ledger', address, Transactions)]_vars

\* C13 witness: a credit to the peer was applied at a confirmation, and after
\* it a sibling of the confirming block was staged: the confirmed blocks and
\* the credited balance are still there.
C13_Witness ==
    /\ ledger.panicked = NoPanic
    /\ ledger.tx_applied[tx_get_id(CreditTx(OwnKey, PeerKey, 1, 1))] = 1
    /\ BalanceOf(ledger, PeerKey) >= 1
    /\ Len(ledger.heads) >= 2
    /\ ledger.heads[1].block_height = ledger.heads[2].block_height
    /\ Cardinality(ledger.blocks_on_longest_chain) > GenesisTimeslots

\* C14: staging a block whose proof id is already in metablocks under another
\* block id does not abort the node: the abort "Two contents are being used
\* for the same proof!" is never reached.
C14_EquivocationDoesNotAbort ==
    ledger.panicked # "Two contents are being used for the same proof!"

\* C15: a stage_block of a block that is already staged, with the same proof
\* id and the same block id, changes neither the balances, nor the heads, nor
\* the blocks recorded in the epochs.
C15_RestagingIsNoOp == ledger.restaged_unchanged

\* C16: in every reachable state every epoch has challenges if and only if it
\* is closed, and a closed epoch holds exactly TIMESLOTS_PER_EPOCH challenges,
\* challenge i being SHA-256(randomness || i as little-endian u64).
C16_ChallengesIffClosed ==
    \A e \in DOMAIN ledger.epochs :
        LET epoch == ledger.epochs[e]
        IN  /\ (epoch.challenges # <<>>) <=> epoch.is_closed
            /\ epoch.is_closed =>
                /\ Len(epoch.challenges) = TIMESLOTS_PER_EPOCH
                /\ \A i \in 0 .. (TIMESLOTS_PER_EPOCH - 1) :
                    epoch.challenges[i + 1] = slot_challenge(epoch.randomness, i)

\* C16 witness: the tracker holds a closed epoch with recorded blocks and its
\* challenges, and an open epoch without challenges.
C16_Witness ==
    /\ ledger.panicked = NoPanic
    /\ \E e \in DOMAIN ledger.epochs :
        /\ ledger.epochs[e].is_closed
        /\ ledger.epochs[e].timeslots # EmptyMap
        /\ Len(ledger.epochs[e].challenges) = TIMESLOTS_PER_EPOCH
    /\ \E e \in DOMAIN ledger.epochs :
        ~ledger.epochs[e].is_closed /\ ledger.epochs[e].challenges = <<>>

\* C17: once an epoch is closed no operation changes its randomness, its
\* challenges or its recorded block ids: add_block_to_timeslot is a no-op and
\* a further close leaves randomness and challenges as they were.
C17_ClosedEpochImmutable ==
    [][\A e \in DOMAIN ledger.epochs \cap DOMAIN ledger'.epochs :
        ledger.epochs[e].is_closed =>
            /\ ledger'.epochs[e].randomness = ledger.epochs[e].randomness
            /\ ledger'.epochs[e].challenges = ledger.epochs[e].challenges
            /\ ledger'.epochs[e].timeslots = ledger.epochs[e].timeslots]_vars

\* C18: the broker serves a write only right after it drained the read queue
\* to empty in the same loop iteration, at most one write per iteration, and
\* a read that was queued when the iteration began is answered before the
\* write of that iteration.
C18_WriteAfterReads ==
    plot_broker.write_after_drain /\ plot_broker.writes_served <= 1

\* C18 witness: a write was served in an iteration that began with a read in
\* the queue.
C18_Witness ==
    /\ plot_broker.writes_served = 1
    /\ plot_broker.reads_at_start # {}
    /\ plot_broker.reads_at_start \subseteq plot_broker.answered

\* a request is in one of the two queues
RequestQueued ==
    plot_broker.read_requests # <<>> \/ plot_broker.write_requests # <<>>
QueuedClients ==
    SeqToSet(plot_broker.read_requests) \cup SeqToSet(plot_broker.write_requests)

C20_CachedChildrenReleased == ledger.cached_children_released

\* ---- gossip validation (SpecGossip)

\* the parent of the observed block was heads[0]
ParentIsHead(o) == o.parent_height = o.head_height

\* C21: a valid gossip block (here: a child of heads[0] with a valid proof,
\* its lookback epoch closed) that is received while its timeslot is at most
\* MAX_EARLY_TIMESLOTS ahead is stored in early_blocks_by_timeslot; when
\* next_timeslot reaches its timeslot the block is staged, and the entry of
\* that timeslot is removed.
C21_EarlyBlockStagedOnArrival ==
    /\ \A o \in ledger.gossip_log :
        /\ o.via = "gossip" /\ ParentIsHead(o) /\ block_is_valid(o.block)
        /\ o.block.proof.timeslot \in (o.now + 1) .. (o.now + MAX_EARLY_TIMESLOTS)
        => o.in_early_blocks
    /\ \A o \in ledger.gossip_log :
        /\ o.via = "arrived" /\ ParentIsHead(o) /\ block_is_valid(o.block)
        /\ ~o.lookback_open
        => o.alive /\ o.staged
    /\ ledger.panicked = NoPanic =>
        \A timeslot \in DOMAIN ledger.early_blocks_by_timeslot :
            timeslot > ledger.current_timeslot

\* C22: while the timer runs, the gossip validation stores a block of
\* timeslot current_timeslot + MAX_EARLY_TIMESLOTS in
\* early_blocks_by_timeslot, and rejects a block of timeslot
\* current_timeslot + MAX_EARLY_TIMESLOTS + 1 without storing it there.
C22_TooEarlyBlockRejected ==
    \A o \in ledger.gossip_log :
        o.via = "gossip" =>
            /\ o.block.proof.timeslot = o.now + MAX_EARLY_TIMESLOTS
                => ~o.valid /\ o.in_early_blocks
            /\ o.block.proof.timeslot = o.now + MAX_EARLY_TIMESLOTS + 1
                => ~o.valid /\ ~o.in_early_blocks

\* C23: the deep-fork check rejects a block whose parent has
\* parent.height + CONFIRMATION_DEPTH = heads[0].block_height, rejects a
\* block whose parent is deeper, and lets every other block pass, a child
\* of heads[0] among them.
C23_DeepForkCheck ==
    \A o \in ledger.gossip_log :
        o.parent_height >= 0 =>
            (o.deep_fork <=> o.parent_height + CONFIRMATION_DEPTH <= o.head_height)

\* C24: staging is deterministic: a second ledger that starts in the state
\* the gateway started in and is given the same stage_block calls and epoch
\* advances, its hash maps iterating in any order, ends with the same
\* metablocks, the same heads in the same order, and the same epochs, the
\* randomness of the closed epochs included.
C24_StagingDeterministic ==
    ledger.panicked = NoPanic =>
        \A order \in HashOrders :
            LET second == replay(GossipStart, ledger.staging_calls, order)
            IN  /\ second.blocks = ledger.blocks
                /\ second.content_to_proof_map = ledger.content_to_proof_map
                /\ second.heads = ledger.heads
                /\ second.epochs = ledger.epochs

\* peer blocks were staged, by the gossip handler and by next_timeslot, and
\* an epoch that holds blocks of several timeslots was closed after them
C24_Witness ==
    /\ ledger.panicked = NoPanic
    /\ \E i, j, k \in DOMAIN ledger.staging_calls :
        /\ i < j /\ j < k
        /\ ledger.staging_calls[i].call = "stage_block"
        /\ ledger.staging_calls[j].call = "stage_block"
        /\ ledger.staging_calls[k].call = "advance_epoch"
    /\ \E o \in ledger.gossip_log : o.via = "arrived" /\ o.staged
    /\ \E e \in DOMAIN ledger.epochs :
        /\ e > 1 /\ ledger.epochs[e].is_closed
        /\ Cardinality(DOMAIN ledger.epochs[e].timeslots) > 1

\* ---- the plot (SpecPlot)

\* u64::MAX of the model's tags
TagMax == TagSpace - 1
\* the (tag, index) pairs of tags_db
StoredPairs == {<<tag, usize_from_le_bytes(tags_db[tag])>> : tag \in DOMAIN tags_db}

\* C25 as stated: find_by_range(target, u64::MAX) returns every (tag, index)
\* pair stored, for every target and every set of stored tags.
C25_MaxRangeReturnsAll ==
    (plot_reply.op = "find_by_range" /\ plot_reply.range = TagMax)
        => SeqToSet(plot_reply.result) = StoredPairs

\* C25: find_by_range(target, u64::MAX) returns, once each, every stored
\* (tag, index) pair but that of the one tag half the tag space away from
\* the target, big_endian(tag) = target + 2^63 (mod 2^64): range / 2 rounds
\* down, and the interval [target - range/2, target + range/2] leaves that
\* value out.
C25_MaxRangeReturnsAllButOpposite ==
    (plot_reply.op = "find_by_range" /\ plot_reply.range = TagMax)
        => LET target == tag_from_be_bytes(plot_reply.target)
               opposite == tag_to_be_bytes((target + (TagSpace \div 2)) % TagSpace)
           IN  /\ SeqToSet(plot_reply.result) =
                    {pair \in StoredPairs : pair[1] # opposite}
               /\ Len(plot_reply.result) = Cardinality(SeqToSet(plot_reply.result))

\* a query with range u64::MAX on a plot of three tags, whose interval wraps
\* and which returns two of them
C25_Witness ==
    /\ plot_reply.op = "find_by_range" /\ plot_reply.range = TagMax
    /\ Cardinality(DOMAIN tags_db) = 3
    /\ Len(plot_reply.result) = 2
    /\ tag_from_be_bytes(plot_reply.target) < TagMax \div 2

\* C26: find_by_tag(t) returns the smallest stored tag that is >= t, tags
\* compared as big-endian 8-byte keys (the order in which write stores
\* them), together with the piece index stored under that tag.
C26_FindByTagSmallestAtLeast ==
    LET AtLeast == {key \in DOMAIN tags_db :
                        tag_from_be_bytes(key) >= plot_reply.tag}
    IN  (plot_reply.op = "find_by_tag" /\ AtLeast # {})
            => \E best \in AtLeast :
                /\ \A key \in AtLeast : tag_from_be_bytes(best) <= tag_from_be_bytes(key)
                /\ plot_reply.result.sent =
                        <<tag_from_be_bytes(best), usize_from_le_bytes(tags_db[best])>>

\* C27: a read of an index that was never written, or was removed after its
\* last write, fails with NotFound, and the failed read changes nothing of
\* the plot (file, file position, map_db, tags_db).
C27_ReadOfAbsentIsNotFound ==
    [][(plot_reply.op = "none" /\ plot_reply'.op = "read"
            /\ plot_written[plot_reply'.index] = NoEncoding)
        => /\ plot_reply'.result = NotFound
           /\ UNCHANGED <<plot_file, plot_position, map_db, tags_db>>]_vars

\* a read answered NotFound for an index that was written and then removed:
\* its encoding is in the file and a tag still names it
C27_Witness ==
    /\ plot_reply.op = "read" /\ plot_reply.result = NotFound
    /\ plot_written[plot_reply.index] = NoEncoding
    /\ plot_file # <<>>
    /\ \E tag \in DOMAIN tags_db : usize_from_le_bytes(tags_db[tag]) = plot_reply.index
    /\ \E index \in PlotIndexes : plot_written[index] # NoEncoding

\* C28: while the timer runs, a gossip block whose timeslot lies outside
\* current_timeslot - MAX_EARLY_TIMESLOTS .. current_timeslot +
\* MAX_LATE_TIMESLOTS does not proceed past the timeslot check: it is cached
\* as early or rejected as late, and it is never staged by that call.
C28_OnlyBlocksInWindowProceed ==
    \A o \in ledger.gossip_log :
        (/\ o.via = "gossip"
         /\ o.block.proof.timeslot \notin
                (o.now - MAX_EARLY_TIMESLOTS) .. (o.now + MAX_LATE_TIMESLOTS))
        => ~o.valid /\ ~o.staged

\* C29: the validation of a block whose lookback epoch is still open
\* rejects the block by returning false, and leaves the node running.
C29_OpenLookbackRejects ==
    \A o \in ledger.gossip_log :
        o.lookback_open => o.alive /\ ~o.valid /\ ~o.staged

\* ---- payments (SpecCredit)

\* C30: confirm_block debits the sender and credits the receiver of a
\* credit transaction only when the sender has balance >= amount and
\* nonce < tx.nonce; when either check fails no balance changes; and no
\* balance goes below zero.
C30_CreditsGuarded ==
    /\ ledger.credits_guarded
    /\ \A address \in DOMAIN ledger.balances : ledger.balances[address].balance >= 0

\* of the two payments of the gateway one was applied, and the other was
\* taken from the mempool and not applied, the balance no longer covering it
C30_Witness ==
    /\ ledger.panicked = NoPanic
    /\ \E paid, unpaid \in {tx \in CreditTransactions : tx.from_address = OwnKey} :
        /\ ledger.tx_applied[tx_get_id(paid)] = 1
        /\ ledger.tx_removed[tx_get_id(unpaid)] = 1
        /\ ledger.tx_applied[tx_get_id(unpaid)] = 0
        /\ ledger.balances[OwnKey].balance < unpaid.amount
        /\ ledger.balances[PeerKey].balance = paid.amount


\* C31: a confirm_block on a block that names a tx-id absent from txs returns
\* false and leaves balances, blocks_on_longest_chain, the mempool, metablocks
\* and heads as they were.
C31_UnknownTxFailsClean ==
    \A failed \in ledger.failed_confirms :
        failed.returned = "false" /\ failed.unchanged

\* a block with the unknown credit was staged, a child of it was staged, and
\* the confirm_block the child caused failed
C31_Witness ==
    /\ LedgerAlive
    /\ \E failed \in ledger.failed_confirms :
        /\ failed.proof_id \in DOMAIN ledger.blocks
        /\ ledger.blocks[failed.proof_id].children # <<>>
        /\ tx_get_id(UnknownTx) \in
                SeqToSet(ledger.blocks[failed.proof_id].block.content.tx_ids)
        /\ tx_get_id(UnknownTx) \notin DOMAIN ledger.txs
        /\ failed.proof_id \notin ledger.blocks_on_longest_chain


\* a response that arrived after its request had timed out
LateDeliveries == {d \in network.delivered : d.late}

\* the handler of every request that returned TimedOut is gone
TimedOutDeregistered ==
    \A k \in DOMAIN network.requests :
        network.requests[k].result = "TimedOut" => ~holds_handler(network, k)

\* C32 as stated: a request without a response within REQUEST_TIMEOUT returns
\* TimedOut and its handler is removed; a response that arrives afterwards for
\* its id is discarded and delivered to no other request.
C32_LateResponseDiscarded ==
    TimedOutDeregistered /\ LateDeliveries = {}

\* C32, amended: the handler of a timed-out request is removed, and a response
\* that arrives afterwards is delivered to no request made before next_id has
\* wrapped around to the id of the timed-out request: the only requests that
\* receive it are a whole number of rounds of 2^IdBits later and hold its id.
C32_LateResponseDiscardedUntilWrap ==
    /\ TimedOutDeregistered
    /\ \A d \in LateDeliveries :
        /\ d.to >= d.answers + 2 ^ IdBits
        /\ network.requests[d.to].id = network.requests[d.answers].id

\* a request timed out, its response arrived afterwards and was dropped, and
\* a later request got its own response
C32_Witness ==
    \E k, j \in DOMAIN network.requests :
        /\ network.requests[k].result = "TimedOut"
        /\ network.requests[k].responded
        /\ network.requests[k].id \notin DOMAIN network.handlers
        /\ \A r \in network.in_flight : r.answers # k
        /\ \A d \in network.delivered : d.answers # k
        /\ j > k /\ network.requests[j].result = "Ok"
        /\ network.requests[j].received = j


\* the sum of the balances of all accounts
RECURSIVE SumOfBalances(_, _)
SumOfBalances(balances, addresses) ==
    IF addresses = {} THEN 0
    ELSE LET address == CHOOSE a \in addresses : TRUE
         IN  balances[address].balance + SumOfBalances(balances, addresses \ {address})

\* C33: the transactions of a block are applied to balances at most once, so
\* the sum of all balances is BLOCK_REWARD times the number of proof-ids in
\* blocks_on_longest_chain, also when several children are staged on the same
\* parent.
C33_BalancesMatchLongestChain ==
    LedgerAlive =>
        SumOfBalances(ledger.balances, DOMAIN ledger.balances)
            = BLOCK_REWARD * Cardinality(ledger.blocks_on_longest_chain)


\* C34: a confirmed block is never pruned: no proof-id in
\* blocks_on_longest_chain is ever removed from metablocks by prune_children,
\* whatever order sibling blocks and their children are staged in.
C34_ConfirmedNeverPruned == ledger.confirmed_pruned = {}


\* the tags an encoding can have
TagsOf(encoding) == {create_hmac(encoding, nonce) : nonce \in Nonces}

\* the tags that tags_db holds for an index
TagsOfIndex(index) ==
    {tag \in DOMAIN tags_db : usize_from_le_bytes(tags_db[tag]) = index}

\* C35: after a write to an index that was written before, tags_db holds one
\* tag for the index, a tag of the encoding written last, and find_by_range
\* returns no tag of a replaced encoding paired with the index (get_keys
\* returns the keys of tags_db).
C35_OverwriteReplacesTag ==
    /\ \A index \in PlotIndexes :
        plot_written[index] # NoEncoding =>
            /\ Cardinality(TagsOfIndex(index)) <= 1
            /\ TagsOfIndex(index) \subseteq TagsOf(plot_written[index])
    /\ plot_reply.op = "find_by_range" =>
        \A k \in DOMAIN plot_reply.result :
            LET tag == plot_reply.result[k][1]
                index == plot_reply.result[k][1 + 1]
            IN  plot_written[index] # NoEncoding => tag \in TagsOf(plot_written[index])


\* C36: every proof-id listed in proof_ids_by_timeslot is a key of
\* metablocks.blocks, so get_blocks_by_timeslot finds every block it looks
\* up, also after sibling pruning.
C36_BlocksByTimeslotKnown ==
    LedgerAlive =>
        \A timeslot \in DOMAIN ledger.proof_ids_by_timeslot :
            SeqToSet(ledger.proof_ids_by_timeslot[timeslot]) \subseteq DOMAIN ledger.blocks


\* the metablocks without children
Leaves(L) == {proof_id \in DOMAIN L.blocks : L.blocks[proof_id].children = <<>>}

\* the head entry a leaf is to have
HeadOf(L, proof_id) ==
    [block_height |-> L.blocks[proof_id].height,
     content_id |-> metablock_content_id(L.blocks[proof_id])]

\* C37: heads has exactly one entry per leaf metablock, with the content-id
\* and the height of that metablock, and no entry for a non-leaf or for a
\* block that is not in metablocks.
C37_HeadsAreTheLeaves ==
    LedgerAlive =>
        /\ SeqToSet(ledger.heads) = {HeadOf(ledger, proof_id) : proof_id \in Leaves(ledger)}
        /\ Len(ledger.heads) = Cardinality(Leaves(ledger))


\* C38: the early-block check never underflows: the gossip validation
\* evaluates current_timeslot - MAX_EARLY_TIMESLOTS only with
\* current_timeslot >= MAX_EARLY_TIMESLOTS, for every block ahead of
\* current_timeslot.
C38_EarlyCheckNeverUnderflows == ~ledger.early_check_underflowed


\* C39: stage_cached_children terminates for every finite content of the
\* cache, also when cached blocks name each other as parents.
C39_CachedWalkTerminates == <>(ledger.cache_walk.pc = "done")

\* the walk has ended on a cache in which two blocks name each other as
\* parents, after it staged both: the child of the parent it started from,
\* and then the cached block that has the content id of that parent
C39_Witness ==
    /\ ledger.cache_walk.pc = "done"
    /\ \E first, second \in ledger.cache_walk.cache :
        /\ first.parent_id = second.id /\ second.parent_id = first.id
        /\ first.id # WalkParent /\ second.id = WalkParent
        /\ first.timeslot < second.timeslot
        /\ first.id \in DOMAIN ledger.cache_walk.staged
        /\ ledger.cache_walk.staged[first.id] = first.timeslot
        /\ ledger.cache_walk.staged[second.id] = second.timeslot



\* C40: content_to_proof_map[c] = p exactly when metablocks.blocks[p] exists
\* and has content id c, after any sequence of save and prune_children, so
\* the lookup 'Must have block if in content_to_proof_map' finds its block.
C40_IndicesConsistent ==
    /\ ledger.panicked # "Must have block if in content_to_proof_map"
    /\ LedgerAlive =>
            /\ \A content_id \in DOMAIN ledger.content_to_proof_map :
                LET proof_id == ledger.content_to_proof_map[content_id]
                IN  /\ proof_id \in DOMAIN ledger.blocks
                    /\ metablock_content_id(ledger.blocks[proof_id]) = content_id
            /\ \A proof_id \in DOMAIN ledger.blocks :
                LET content_id == metablock_content_id(ledger.blocks[proof_id])
                IN  /\ content_id \in DOMAIN ledger.content_to_proof_map
                    /\ ledger.content_to_proof_map[content_id] = proof_id

\* a sibling has been pruned (proof_ids_by_timeslot still lists it) and a
\* block saved after the genesis blocks is in both indices
C40_Witness ==
    /\ LedgerAlive
    /\ \E timeslot \in DOMAIN ledger.proof_ids_by_timeslot :
        \E proof_id \in SeqToSet(ledger.proof_ids_by_timeslot[timeslot]) :
            proof_id \notin DOMAIN ledger.blocks
    /\ \E proof_id \in DOMAIN ledger.blocks :
        /\ ledger.blocks[proof_id].height >= GenesisTimeslots
        /\ ledger.content_to_proof_map[metablock_content_id(ledger.blocks[proof_id])] = proof_id

====
